---- MODULE Spec2Model ----
(***************************************************************************)
(* State-machine model of the restart-safe iteration engine of the         *)
(* combustion/coolant heat-transfer coupling driver (runHTC.py and         *)
(* helperFuncs/).                                                          *)
(*                                                                         *)
(* One process at a time runs the job.  `mem' is the RunInfoClass object   *)
(* of the running process, `disk' is htcRunInfo.yaml.  Kill ends the       *)
(* process at any program position; checkCurrentState starts a new one     *)
(* from the durable state.                                                 *)
(*                                                                         *)
(* Modelling conventions                                                   *)
(*  - Every program position at which durable or file state differs is a   *)
(*    value of pc, so Kill can strike between any two effects.             *)
(*  - The external solver, the mapping tool and the contents of the        *)
(*    boundary-exchange log are inputs: their outcomes are chosen with \E. *)
(*  - Several call sites pass an argument list that does not match the     *)
(*    callee (combustion.py:63,335,365; coolant.py:48,151,165,313;         *)
(*    mapping.py:317; initialization.py:243).  They are modelled as the    *)
(*    call of the named callee on runInfo.  The interpreter raising at     *)
(*    such a site ends the process, which is the behaviour of Kill at that *)
(*    position, so every behaviour of the program is a behaviour of this   *)
(*    model.  At combustion.py:63 and 315 the convergence log has been     *)
(*    written when the call raises: setCombConvergence_raises.             *)
(***************************************************************************)
EXTENDS Integers, Sequences, FiniteSets, TLC

(***************************************************************************)
(* Bounds of the model                                                     *)
(***************************************************************************)
\* value of the maxRestarts setting used in the model
MaxRestarts == 1
\* the main loop starts no iteration whose number exceeds MaxIter
MaxIter == 2
\* kills and restarts raise an attempt counter without limit; no attempt is
\* started once the counter reached AttemptCap
AttemptCap == MaxRestarts + 2

(***************************************************************************)
(* Program constants                                                       *)
(***************************************************************************)
\* crank-angle length of one combustion cycle
PhaseDuration == 720
\* start time of the combustion simulation
StartCADDefault == 125
\* number of numbered checkpoints the solver keeps in a phase directory
MaxNumbered == 3

combustion == "combustion"
coolant == "coolant"
Phases == {combustion, coolant}

\* no checkpoint file
NoRst == -1

ppSteps ==
  <<"mapping", "convergenceCheck", "boundaryFileRename", "updateInputs",
    "saveResults", "moveRestartFiles", "clearingFiles">>

none == <<"none">>

Abs(x) == IF x < 0 THEN -x ELSE x
Min(a, b) == IF a < b THEN a ELSE b

VARIABLES
  pc,             \* position of the running process, "dead" when there is none
  ctx,            \* caller of performCoolantStep: "main", "initCool", "resumeComb"
  cur,            \* phase whose pipeline is being executed
  ppi,            \* index in ppSteps of the pipeline step in the normal path
  ppList,         \* result of getPostProcessStepsToComplete in a resumed pipeline
  ret,            \* value returned by the last perform*Step / restart* call
  mem,            \* RunInfoClass fields listed in runInfoDefault
  ErrorInSimFlag, \* RunInfoClass.ErrorInSimFlag
  ErrorLoadingFlag, \* RunInfoClass.ErrorLoadingFlag
  diskExists,     \* htcRunInfo.yaml exists
  diskEmpty,      \* htcRunInfo.yaml was opened for writing and nothing was dumped
  disk,           \* content of htcRunInfo.yaml
  done,           \* done[p]: converge.done exists in the directory of p
  rst,            \* rst[p]: checkpoint files in the directory of p
  cvgFile,        \* cvgFile[p]: the convergence log of p exists
  cfgFinal,       \* settings.yaml configures a final cycle
  diag,           \* last fatal diagnostic written to htcJob.stderr by this process
  \* history variables
  effect,         \* kind of externally visible effect of the last step
  ran,            \* pipeline steps executed in the current pipeline pass
  startStep,      \* durable step field found by the resumed pipeline
  nInv,           \* solver invocations of the current phase by this process
  zeroStart,      \* the current attempt loop started with attempt counter 0
  errSet,         \* setSimError was called in some process of the job
  decided,        \* phases whose convergence flag of iteration disk.iter is
                  \* in htcRunInfo.yaml
  pend,           \* <<phase, iteration>> of the checkRunConvergence calls of
                  \* this process since its last write
  \* reconciliation of the boundary-exchange log (TransferSpec)
  xfer,           \* xfer[0]: transfer.out, xfer[k]: transfer<k>.out
  xpc,            \* position of performCombustionStep around the reconciliation
  \* checkpoint files of one directory, file by file (FileSpec)
  fdir,           \* fdir[0]: time in restart.rst, fdir[k]: in restart000k.rst
  fres,           \* what the last getRecentRestartFile returned
  fmv,            \* arguments and outcome of the last callMoveFile
  fhist,          \* fhist[k]: time in restartFiles/restart000k.rst
  fpc,            \* "start", "located", "moved", "raised", "archived",
                  \* "archivedAgain"
  \* one call of checkRunConvergence (ConvergenceSpec)
  cin,            \* phase, iteration, convergence log, tolerances and the
                  \* archived-against-current differences of each boundary
  cres,           \* "True", "False" or "KeyError"
  cpc,            \* "start", "evaluated"
  \* inputs.in of one phase directory over one run of the phase (InputsSpec)
  inp,            \* restart_number, restart_flag, map_flag and end_time
  irun,           \* the phase, combStopTime, the attempt counter of the phase
                  \* and whether the directory holds a checkpoint file
  iused,          \* restart numbers of the attempts made with restart_flag 1
  ipc,            \* "pipeline", "updated", "failed", "retry", "restart",
                  \* "cancelled"
  \* the archived and the current sample of one boundary (DifferenceSpec)
  din,            \* phase, key 'boundarytempTol', rows of the two .map files
  dres,           \* outcome of getAverageDifference and of the evaluation
  dpc,            \* "start", "compared"
  \* the convergence log of one phase over the iterations (LogSpec)
  lg,             \* whether the file exists, and its lines
  lrun,           \* the phase, the iteration of the job and the number of
                  \* evaluations made in it
  lpc             \* "start", "evaluated"

fsVars == <<done, rst, cvgFile>>
ghostVars == <<effect, ran, startStep, nInv, zeroStart, errSet, decided, pend>>
transferVars == <<xfer, xpc>>
fileVars == <<fdir, fres, fmv, fhist, fpc>>
evalVars == <<cin, cres, cpc>>
inputVars == <<inp, irun, iused, ipc>>
diffVars == <<din, dres, dpc>>
logVars == <<lg, lrun, lpc>>
sideVars == <<transferVars, fileVars, evalVars, inputVars, diffVars, logVars>>
\* what only the start of a process changes
otherVars == <<ErrorLoadingFlag, sideVars>>
ctlVars == <<pc, ctx, cur, ppi, ppList, ret>>
mainVars == <<pc, ctx, cur, ppi, ppList, ret, mem, ErrorInSimFlag,
          ErrorLoadingFlag,
          diskExists, diskEmpty, disk, done, rst, cvgFile, cfgFinal, diag,
          effect, ran, startStep, nInv, zeroStart, errSet, decided, pend>>
vars == <<mainVars, sideVars>>

(***************************************************************************)
(* RunInfoClass: pure functions of the run information r                   *)
(***************************************************************************)
runInfoDefault ==
  [iter |-> 0, combCvg |-> FALSE, coolCvg |-> FALSE,
   combStopTime |-> StartCADDefault + PhaseDuration,
   coolIter |-> 0, combIter |-> 0,
   ignoreCoolRestart |-> FALSE, ignoreCombRestart |-> FALSE,
   finalCombustionCompleted |-> FALSE, finalCombustionRunning |-> FALSE,
   hasFinalCombustionStep |-> FALSE, postProcessStep |-> none]

checkConvergence_or(r) == r.combCvg \/ r.coolCvg

checkConvergence(r) == r.combCvg /\ r.coolCvg

checkJobComplete(r) ==
  IF r.hasFinalCombustionStep THEN r.finalCombustionCompleted
  ELSE checkConvergence(r)

initializeFinalCombustionRun(r) == [r EXCEPT !.finalCombustionRunning = TRUE]

\* setPostProcessStep('none'): the field is set, nothing is written
nextCoolantCycle_keep(r) ==
  IF checkConvergence(r) /\ ~r.hasFinalCombustionStep
  THEN [r EXCEPT !.postProcessStep = none]
  ELSE LET r1 == IF checkConvergence(r)
                 THEN initializeFinalCombustionRun(r) ELSE r
       IN [r1 EXCEPT !.iter = r1.iter + 1, !.postProcessStep = none]

nextCoolantCycle(r) ==
  LET r0 == [r EXCEPT !.coolIter = 0] IN
  IF checkConvergence(r0) /\ ~r0.hasFinalCombustionStep
  THEN [r0 EXCEPT !.postProcessStep = none]
  ELSE LET r1 == IF checkConvergence(r0)
                 THEN initializeFinalCombustionRun(r0) ELSE r0
       IN [r1 EXCEPT !.iter = r1.iter + 1, !.postProcessStep = none]

nextCombustionCycle_twice(r) ==
  LET r0 == [r EXCEPT !.combIter = 0] IN
  IF r0.finalCombustionRunning
  THEN [r0 EXCEPT !.finalCombustionCompleted = TRUE,
                  !.finalCombustionRunning = FALSE,
                  !.postProcessStep = none]
  ELSE IF checkConvergence(r0) /\ ~r0.hasFinalCombustionStep
  THEN [r0 EXCEPT !.postProcessStep = none]
  ELSE LET r1 == IF checkConvergence(r0)
                 THEN initializeFinalCombustionRun(r0) ELSE r0
       IN [r1 EXCEPT !.combStopTime = r1.combStopTime + 2 * PhaseDuration,
                     !.postProcessStep = none]

nextCombustionCycle_again(r) ==
  LET r0 == [r EXCEPT !.combIter = 0] IN
  IF checkConvergence(r0) /\ ~r0.hasFinalCombustionStep
  THEN [r0 EXCEPT !.postProcessStep = none]
  ELSE LET r1 == IF checkConvergence(r0)
                 THEN initializeFinalCombustionRun(r0) ELSE r0
       IN [r1 EXCEPT !.combStopTime = r1.combStopTime + PhaseDuration,
                     !.postProcessStep = none]

nextCombustionCycle(r) ==
  LET r0 == [r EXCEPT !.combIter = 0] IN
  IF r0.finalCombustionRunning
  THEN [r0 EXCEPT !.finalCombustionCompleted = TRUE,
                  !.finalCombustionRunning = FALSE,
                  !.postProcessStep = none]
  ELSE IF checkConvergence(r0) /\ ~r0.hasFinalCombustionStep
  THEN [r0 EXCEPT !.postProcessStep = none]
  ELSE LET r1 == IF checkConvergence(r0)
                 THEN initializeFinalCombustionRun(r0) ELSE r0
       IN [r1 EXCEPT !.combStopTime = r1.combStopTime + PhaseDuration,
                     !.postProcessStep = none]

\* 'cool' in runType selects the coolant suffix, anything else combustion
ppName(ppStep, runType) ==
  IF runType = coolant THEN <<ppStep, coolant>> ELSE <<ppStep, combustion>>

restartAtPostProcess(r) == r.postProcessStep # none

getPostProcessRunType(r) ==
  IF r.postProcessStep = none THEN "" ELSE r.postProcessStep[2]

indexOf(s) == CHOOSE i \in 1..Len(ppSteps) : ppSteps[i] = s

getPostProcessStepsToComplete(r) ==
  IF r.postProcessStep = none THEN <<>>
  ELSE SubSeq(ppSteps, indexOf(r.postProcessStep[1]), Len(ppSteps))

InSeq(x, s) == \E i \in 1..Len(s) : s[i] = x

(***************************************************************************)
(* fileOps: checkpoint files of one directory                              *)
(*   c = [canon |-> time in restart.rst or NoRst,                          *)
(*        n     |-> number of numbered restart files,                      *)
(*        numT  |-> time in the highest numbered restart file]             *)
(***************************************************************************)
NoFiles == [canon |-> NoRst, n |-> 0, numT |-> NoRst]

\* "none", "canon" (restart.rst) or "num" (a numbered file), ranked by time;
\* restart.rst is listed first and is replaced only by a strictly later time
getRecentRestartFile(c) ==
  IF c.canon = NoRst /\ c.n = 0 THEN "none"
  ELSE IF c.n = 0 THEN "canon"
  ELSE IF c.canon = NoRst THEN "num"
  ELSE IF c.numT > c.canon THEN "num" ELSE "canon"

\* the file with the largest number, restart.rst when there is no numbered one
getRecentFile(c) ==
  IF c.n > 0 THEN "num" ELSE IF c.canon # NoRst THEN "canon" ELSE "none"

timeOf(c, which) == IF which = "num" THEN c.numT ELSE c.canon

\* callMoveFile(latest, restart.rst) when the latest file is a numbered one
moveLatestToCanon(c) ==
  IF getRecentRestartFile(c) = "num"
  THEN [canon |-> c.numT, n |-> c.n - 1, numT |-> IF c.n = 1 THEN NoRst ELSE c.numT]
  ELSE c

renameRestartFile(c) ==
  IF getRecentRestartFile(c) = "num" THEN [c EXCEPT !.canon = c.numT] ELSE c

\* the file getRecentFile names is moved to restartFiles/
moveSingleRestartFile(c) ==
  IF c.n > 0 THEN [c EXCEPT !.n = c.n - 1, !.numT = IF c.n = 1 THEN NoRst ELSE c.numT]
  ELSE IF c.canon # NoRst THEN [c EXCEPT !.canon = NoRst]
  ELSE c

moveRestartFiles(c) ==
  moveSingleRestartFile(moveSingleRestartFile(moveSingleRestartFile(
    renameRestartFile(c))))

(***************************************************************************)
(* fileOps: the checkpoint files of one directory, file by file.  d[0] is  *)
(* the time embedded in restart.rst, d[k] the time embedded in             *)
(* restart000k.rst, NoRst where the file does not exist.                   *)
(***************************************************************************)
\* bound: restart0001.rst .. restart<MaxRestartFiles>.rst may exist
MaxRestartFiles == 3
\* value of latestTime before the first file is read
latestTimeStart == -100000

RestartTimes ==
  {latestTimeStart - 1, latestTimeStart, StartCADDefault,
   StartCADDefault + PhaseDuration}

NoRestartFiles == [i \in 0..MaxRestartFiles |-> NoRst]

\* getNumberedFiles('restart.rst', fol): restart.rst first, then by number
getNumberedRestartFiles(d) ==
  LET S == {i \in DOMAIN d : d[i] # NoRst} IN
  [k \in 1..Cardinality(S) |->
     CHOOSE i \in S : Cardinality({j \in S : j < i}) = k - 1]

\* the loop of getRecentRestartFile from position i (counted from 0) on:
\* the value of indexLatestTime after the last file
RECURSIVE scanRestartFiles(_, _, _, _, _)
scanRestartFiles(d, restartFiles, i, latestTime, indexLatestTime) ==
  IF i >= Len(restartFiles) THEN indexLatestTime
  ELSE LET rstTime == d[restartFiles[i + 1]] IN
       IF rstTime > latestTime
       THEN scanRestartFiles(d, restartFiles, i + 1, rstTime, i)
       ELSE scanRestartFiles(d, restartFiles, i + 1, latestTime,
                             indexLatestTime)

\* getRecentRestartFile(fol) on the files themselves: [found |-> FALSE] is
\* None; restartFiles[-1] is the last entry of the list
getRecentRestartFile_files(d) ==
  LET restartFiles == getNumberedRestartFiles(d) IN
  IF Len(restartFiles) = 0 THEN [found |-> FALSE, file |-> 0]
  ELSE IF Len(restartFiles) = 1 THEN [found |-> TRUE, file |-> restartFiles[1]]
  ELSE LET k == scanRestartFiles(d, restartFiles, 0, latestTimeStart, -1) IN
       [found |-> TRUE,
        file |-> IF k = -1 THEN restartFiles[Len(restartFiles)]
                 ELSE restartFiles[k + 1]]

\* callMoveFile(oldName, newName): the destination is removed before the
\* source is looked at; with no source the message is built with the builtin
\* format(oldName, newName), which raises ValueError
callMoveFile(d, oldName, newName) ==
  IF oldName = newName THEN [dir |-> d, raised |-> FALSE]
  ELSE LET d1 == [d EXCEPT ![newName] = NoRst] IN
       IF d[oldName] = NoRst THEN [dir |-> d1, raised |-> TRUE]
       ELSE [dir |-> [d1 EXCEPT ![newName] = d[oldName], ![oldName] = NoRst],
             raised |-> FALSE]

\* getRecentFile('restart.rst', fol): -2 without any checkpoint file, 0 for
\* restart.rst when it is the only one (the code returns -1 and the name),
\* otherwise the largest number
getRecentFile_files(d) ==
  LET S == {i \in DOMAIN d : d[i] # NoRst} IN
  IF S = {} THEN -2
  ELSE IF S = {0} THEN 0
  ELSE CHOOSE i \in S \ {0} : \A j \in S : j <= i

\* renameRestartFile: the latest file is copied to restart.rst
renameRestartFile_files(d) ==
  LET latestRst == getRecentRestartFile_files(d) IN
  IF ~latestRst.found \/ latestRst.file = 0 THEN d
  ELSE [d EXCEPT ![0] = d[latestRst.file]]

\* moveSingleRestartFile(newNum, fol): f is [dir, hist], the directory and
\* its folder restartFiles; the file getRecentFile names, restart.rst when
\* it is the only one, replaces restartFiles/restart000<newNum>.rst
moveSingleRestartFile_files(newNum, f) ==
  LET fileNumber == getRecentFile_files(f.dir) IN
  IF fileNumber = -2 THEN f
  ELSE [dir |-> [f.dir EXCEPT ![fileNumber] = NoRst],
        hist |-> [f.hist EXCEPT ![newNum] = f.dir[fileNumber]]]

\* moveRestartFiles(fol)
moveRestartFiles_files(f) ==
  moveSingleRestartFile_files(1,
    moveSingleRestartFile_files(2,
      moveSingleRestartFile_files(3,
        [dir |-> renameRestartFile_files(f.dir), hist |-> f.hist])))

(***************************************************************************)
(* mapping: checkRunConvergence.  A boundary is described by whether its   *)
(* archived sample prevCombustionData/... or prevCoolantData/... exists    *)
(* and by the maximum absolute difference of each of the four variables.   *)
(***************************************************************************)
boundaryTempTolDefault == 5
fluxTolDefault == 10
fluidTempTolDefault == 5
htcTolDefault == 10

\* runInfo['boundaries']
boundaries == <<"liner", "head">>

\* the tolerances of settingsDefault, and 'boundarytempTol', which is a key
\* of the run information only when settings.yaml holds it
settingsDefault ==
  [fluxTol |-> fluxTolDefault, boundaryTempTol |-> boundaryTempTolDefault,
   htcTol |-> htcTolDefault, fluidTempTol |-> fluidTempTolDefault]

NoKey == [has |-> FALSE, val |-> 0]

\* maximum differences at, below and above a tolerance
DiffsAround(tol) == {0, tol, tol + 1}

\* getBoundaryData returns None, None, None
NoArchive == [arch |-> FALSE, temp |-> 0, flux |-> 0, htc |-> 0, fluid |-> 0]

BoundarySamples ==
  {NoArchive} \cup
  [arch : {TRUE}, temp : DiffsAround(boundaryTempTolDefault),
   flux : DiffsAround(fluxTolDefault), htc : DiffsAround(htcTolDefault),
   fluid : DiffsAround(fluidTempTolDefault)]

\* mapping.py 495: no evaluation at iteration 0 or without a convergence log
firstIteration_logOnly(logExists, iterNumber) == ~logExists

firstIteration(logExists, iterNumber) == ~logExists \/ iterNumber = 0

\* the loop over runInfo['boundaries'] from the i-th boundary on; the second
\* operand of 'and' is evaluated only when the first one holds
RECURSIVE checkRunConvergence_loop(_, _, _)
checkRunConvergence_loop(in, i, fullCvg) ==
  IF i > Len(boundaries) THEN (IF fullCvg THEN "True" ELSE "False")
  ELSE LET maxDiff == in.bnd[boundaries[i]] IN
       IF ~maxDiff.arch THEN checkRunConvergence_loop(in, i + 1, FALSE)
       ELSE IF in.runType = combustion
       THEN IF maxDiff.flux <= in.tol.fluxTol
            THEN IF ~in.boundarytempTol.has THEN "KeyError"
                 ELSE checkRunConvergence_loop(in, i + 1,
                        fullCvg /\ maxDiff.temp <= in.boundarytempTol.val)
            ELSE checkRunConvergence_loop(in, i + 1, FALSE)
       ELSE checkRunConvergence_loop(in, i + 1,
              fullCvg /\ maxDiff.flux <= in.tol.fluxTol
                      /\ maxDiff.htc <= in.tol.htcTol
                      /\ maxDiff.fluid <= in.tol.fluidTempTol)

checkRunConvergence(in) ==
  IF firstIteration(in.log, in.iter) THEN "False"
  ELSE checkRunConvergence_loop(in, 1, TRUE)

(***************************************************************************)
(* mapping: getAverageDifference on the rows of the archived and of the    *)
(* current htc_triangles_<b>.map.  A row is [loc, temp, flux, htc, fluid]: *)
(* loc stands for the columns 1 to 3 (x, y, z), the others for the columns *)
(* 5 to 8.  Both files hold one row for each point of the mapping surface, *)
(* at least two: loadtxt makes a table of a file of two rows or more.      *)
(***************************************************************************)
\* bound: number of rows of a .map file
MaxPoints == 2

MaxOf(S) == CHOOSE m \in S : \A x \in S : x <= m

\* rows whose three coordinates are equal in both files
cmpLocs(oldData, newData) ==
  {i \in 1..Len(oldData) : oldData[i].loc = newData[i].loc}

\* the warning is written when some row is left out
getAverageDifference_warns(oldData, newData) ==
  Cardinality(cmpLocs(oldData, newData)) < Len(oldData)

\* dataDiff.max(axis=0) over the rows of keep
maxDiffOver(oldData, newData, keep) ==
  [arch |-> TRUE,
   temp |-> MaxOf({Abs(oldData[i].temp - newData[i].temp) : i \in keep}),
   flux |-> MaxOf({Abs(oldData[i].flux - newData[i].flux) : i \in keep}),
   htc |-> MaxOf({Abs(oldData[i].htc - newData[i].htc) : i \in keep}),
   fluid |-> MaxOf({Abs(oldData[i].fluid - newData[i].fluid) : i \in keep})]

\* maxDiff of the rows kept; dataDiff.max(axis=0) raises ValueError on an
\* array without rows.  minDiff and avgDiff go to the log only.
getAverageDifference(oldData, newData) ==
  LET keep == cmpLocs(oldData, newData) IN
  IF keep = {} THEN [raised |-> TRUE, maxDiff |-> NoArchive]
  ELSE [raised |-> FALSE, maxDiff |-> maxDiffOver(oldData, newData, keep)]

\* checkRunConvergence after iteration 0 when every boundary has the files
\* of d: an exception of getBoundaryData leaves the function
checkRunConvergence_samples(d) ==
  LET got == getAverageDifference(d.old, d.new) IN
  IF got.raised THEN "ValueError"
  ELSE checkRunConvergence(
         [runType |-> d.runType, iter |-> 1, log |-> TRUE,
          tol |-> settingsDefault, boundarytempTol |-> d.boundarytempTol,
          bnd |-> [b \in {boundaries[i] : i \in DOMAIN boundaries}
                     |-> got.maxDiff]])

(***************************************************************************)
(* mapping: what checkRunConvergence writes to combustionConvergence.txt   *)
(* or coolantConvergence.txt.  The lines of the file are the header,       *)
(* <<"header", runType>>, and one record <<"iteration", n>> for each       *)
(* 'Iteration Number n:' with the lines of the boundaries that follow it.  *)
(***************************************************************************)
NoLog == [exists |-> FALSE, lines |-> <<>>]

\* every call opens the file with 'w'
checkRunConvergence_log_truncate(log, runType, iterNumber) ==
  [exists |-> TRUE, lines |-> <<<<"header", runType>>, <<"iteration", iterNumber>>>>]

\* mapping.py 495-503: open(outFile, 'w') and the header without a log or at
\* iteration 0, open(outFile, 'a') and the record of the iteration otherwise
checkRunConvergence_log(log, runType, iterNumber) ==
  IF firstIteration(log.exists, iterNumber)
  THEN [exists |-> TRUE, lines |-> <<<<"header", runType>>>>]
  ELSE [exists |-> TRUE,
        lines |-> Append(log.lines, <<"iteration", iterNumber>>)]

(***************************************************************************)
(* inputs.in: the entries written by the pipeline step updateInputs, by    *)
(* the retry inside the attempt loop and by the restart of the job.  r is  *)
(* [runType, combStopTime, n, rstFound], n being combIter or coolIter.     *)
(***************************************************************************)
\* ensureCorrectMappingVars: restart_flag 2 is written as map_flag MAP, and
\* map_flag MAP goes with restart_flag 0
ensureCorrectMappingVars(entries) ==
  LET e1 == IF "restart_flag" \in DOMAIN entries /\ entries.restart_flag = 2
            THEN ("map_flag" :> "MAP") @@ ("restart_flag" :> 0) @@ entries
            ELSE entries
  IN IF "map_flag" \in DOMAIN e1 /\ e1.map_flag = "MAP"
     THEN ("restart_flag" :> 0) @@ e1
     ELSE e1

\* changeEntriesInFile('inputs.in', entries, fol): the entries that the file
\* holds get their new value, an entry the file does not hold is not added
changeEntriesInFile(file, entries) ==
  LET e == ensureCorrectMappingVars(entries) IN
  [k \in DOMAIN file |-> IF k \in DOMAIN e THEN e[k] ELSE file[k]]

\* the fields of inputs.in that select how the solver starts
resumeFields(d) == <<d.restart_number, d.restart_flag, d.map_flag>>

\* initializeJob, no restart file given (initialization.py 225-232)
initializeJob_newEntries(r) ==
  IF r.runType = combustion
  THEN [restart_number |-> 1, restart_flag |-> 0,
        end_time |-> r.combStopTime, map_flag |-> "OFF"]
  ELSE [restart_number |-> 1, restart_flag |-> 0, map_flag |-> "OFF"]

\* performCombustionStep / performCoolantStep, step updateInputs
updateInputs_newEntries(r) ==
  IF r.runType = combustion
  THEN [restart_number |-> 1, restart_flag |-> 1,
        end_time |-> r.combStopTime + PhaseDuration, map_flag |-> "OFF"]
  ELSE [restart_number |-> 1, restart_flag |-> 0, map_flag |-> "MAP"]

\* restartCombustionDuringPostProcess / restartCoolantDuringPostProcess,
\* 'updateInputs' in ppSteps
restartDuringPostProcess_newEntries(r) ==
  IF r.runType = combustion
  THEN [restart_number |-> 1, restart_flag |-> 1,
        end_time |-> r.combStopTime + PhaseDuration, map_flag |-> "OFF"]
  ELSE [restart_number |-> 1, restart_flag |-> 0, map_flag |-> "MAP"]

\* prepCombustionRestartAfterFailure / prepCoolantRestartAfterFailure
prepRestartAfterFailure_newEntries(r) ==
  IF r.runType = combustion
  THEN [restart_number |-> r.n + 1, restart_flag |-> 1, map_flag |-> "OFF"]
  ELSE [restart_number |-> r.n, restart_flag |-> 1]

\* initializeCombustionRestart / initializeCoolantRestart
initializeRestart_newEntries(r) ==
  IF r.runType = combustion
  THEN [restart_number |-> r.n + 1, restart_flag |-> 1, map_flag |-> "OFF"]
  ELSE IF ~r.rstFound
  THEN [restart_number |-> 1, restart_flag |-> 0, map_flag |-> "OFF"]
  ELSE [restart_number |-> r.n, restart_flag |-> 1, map_flag |-> "OFF"]

(***************************************************************************)
(* fileOps: fragments of the boundary-exchange log in the combustion       *)
(* directory.  A fragment is described by the number of its records up to  *)
(* the restart time (keep) and after it (later); the first record of a     *)
(* fragment lies within its first nine lines and no other record does.     *)
(***************************************************************************)
\* bound: transfer1.out .. transfer<MaxTransferNumber>.out may exist
MaxTransferNumber == 3
\* bound: records of one fragment on either side of the restart time
MaxRecords == 1

Absent == [there |-> FALSE, keep |-> 0, later |-> 0]

TransferFiles ==
  {Absent} \cup [there : {TRUE}, keep : 0..MaxRecords, later : 0..MaxRecords]

\* getNumberedFiles('transfer.out', fol): the fragments present, transfer.out
\* first, then by number
getNumberedFiles(d) ==
  LET S == {i \in DOMAIN d : d[i].there} IN
  [k \in 1..Cardinality(S) |->
     CHOOSE i \in S : Cardinality({j \in S : j < i}) = k - 1]

removeTimesInTransferOut_keepAll(f) == [ret |-> f.there, file |-> f]

removeTimesInTransferOut(f) ==
  IF ~f.there THEN [ret |-> FALSE, file |-> f]
  ELSE IF f.later = 0 THEN [ret |-> TRUE, file |-> f]
  ELSE IF f.keep = 0 THEN [ret |-> FALSE, file |-> Absent]
  ELSE [ret |-> TRUE, file |-> [f EXCEPT !.later = 0]]

correctTransferOutForRestart_merge(d) ==
  LET files == getNumberedFiles(d) IN
  IF Len(files) < 2 \/ ~d[0].there THEN [ret |-> TRUE, dir |-> d]
  ELSE [ret |-> TRUE, dir |-> [d EXCEPT ![files[2]] = Absent]]

correctTransferOutForRestart(d) ==
  LET files == getNumberedFiles(d) IN
  IF Len(files) = 0 THEN [ret |-> TRUE, dir |-> d]
  ELSE IF Len(files) = 1
  THEN IF files[1] # 0
       THEN LET r == removeTimesInTransferOut(d[files[1]]) IN
            IF r.ret
            THEN [ret |-> TRUE,
                  dir |-> [d EXCEPT ![0] = r.file, ![files[1]] = Absent]]
            ELSE [ret |-> TRUE, dir |-> [d EXCEPT ![files[1]] = r.file]]
       ELSE [ret |-> TRUE, dir |-> d]
  ELSE IF Len(files) = 2
  THEN IF ~d[0].there
       THEN [ret |-> FALSE, dir |-> d]
       ELSE LET r == removeTimesInTransferOut(d[files[2]]) IN
            IF r.ret
            THEN [ret |-> TRUE,
                  dir |-> [d EXCEPT ![0] = [@ EXCEPT
                                              !.keep = @ + r.file.keep,
                                              !.later = @ + r.file.later],
                                    ![files[2]] = Absent]]
            ELSE [ret |-> TRUE, dir |-> [d EXCEPT ![files[2]] = r.file]]
  ELSE [ret |-> FALSE, dir |-> d]

\* 2 * abs(expected - last) >= 1 is abs(tDiff) >= 0.5
OracleTolTwice == 1

checkCombustionCompleted_off(c, expectedTime) == getRecentFile(c) # "none"

checkCombustionCompleted(c, expectedTime) ==
  /\ getRecentFile(c) # "none"
  /\ ~(2 * Abs(expectedTime - timeOf(c, getRecentFile(c))) >= OracleTolTwice)


(***************************************************************************)
(* Retry bound of the attempt loops                                        *)
(***************************************************************************)
retriesExhausted_ge(attempt) == attempt >= MaxRestarts

\* runInfo.combIter() > runInfo['maxRestarts'], runInfo['coolIter'] > ...
retriesExhausted(attempt) == attempt > MaxRestarts

(***************************************************************************)
(* Restart classification: checkCurrentState and initializeRestart         *)
(***************************************************************************)
classifyRestart(found, r) ==
  IF ~found THEN "NEW"
  ELSE IF restartAtPostProcess(r) THEN "RESUME_POSTPROCESS"
  ELSE IF checkJobComplete(r) THEN "ALREADY_DONE"
  ELSE IF r.coolIter > 0 THEN "RESUME_COOLANT"
  ELSE IF r.combIter > 0 THEN "RESUME_COMBUSTION"
  ELSE "NOT_RESUMABLE"

\* RunInfoClass.__init__: the fields of htcRunInfo.yaml, defaults otherwise;
\* hasFinalCombustionStep is set by loadSettings before the file is read
loadRunInfo ==
  IF diskExists THEN disk
  ELSE [runInfoDefault EXCEPT !.hasFinalCombustionStep = cfgFinal]

NoDiag == <<"none", "none">>

(***************************************************************************)
(* Initial state: a job directory that was never run.  The directories may *)
(* already hold a restart.rst each to start the first simulations from.    *)
(***************************************************************************)
MainInit ==
  /\ pc = "dead"
  /\ ctx = "main"
  /\ cur = combustion
  /\ ppi = 1
  /\ ppList = <<>>
  /\ ret = TRUE
  /\ mem = runInfoDefault
  /\ ErrorInSimFlag = FALSE
  /\ ErrorLoadingFlag = FALSE
  /\ diskExists = FALSE
  /\ diskEmpty = FALSE
  /\ disk = runInfoDefault
  /\ done = [p \in Phases |-> FALSE]
  /\ \E given \in BOOLEAN :
       rst = [p \in Phases |->
                IF given
                THEN [NoFiles EXCEPT !.canon = StartCADDefault + 2 * PhaseDuration]
                ELSE NoFiles]
  /\ cvgFile = [p \in Phases |-> FALSE]
  /\ cfgFinal \in BOOLEAN
  /\ diag = NoDiag
  /\ effect = "none"
  /\ ran = <<>>
  /\ startStep = none
  /\ nInv = 0
  /\ zeroStart = FALSE
  /\ errSet = FALSE
  /\ decided = {}
  /\ pend = {}

TransferIdle ==
  /\ xfer = [i \in 0..MaxTransferNumber |-> Absent]
  /\ xpc = "idle"

\* no directory is looked at
FileIdle ==
  /\ fdir = <<>>
  /\ fres = <<>>
  /\ fmv = <<>>
  /\ fhist = <<>>
  /\ fpc = "idle"

\* no call of checkRunConvergence is looked at
EvalIdle ==
  /\ cin = <<>>
  /\ cres = "False"
  /\ cpc = "idle"

\* no inputs.in is looked at
InputsIdle ==
  /\ inp = <<>>
  /\ irun = <<>>
  /\ iused = {}
  /\ ipc = "idle"

\* no pair of samples is looked at
DiffIdle ==
  /\ din = <<>>
  /\ dres = <<>>
  /\ dpc = "idle"

\* no convergence log is looked at
LogIdle ==
  /\ lg = <<>>
  /\ lrun = <<>>
  /\ lpc = "idle"

Init ==
  /\ MainInit
  /\ TransferIdle
  /\ FileIdle
  /\ EvalIdle
  /\ InputsIdle
  /\ LogIdle
  /\ DiffIdle

Running == pc \notin {"dead", "exited", "crashed"}

\* RunInfoClass.checkErrors
checkErrors_simOnly(simFlag, loadingFlag) == simFlag

checkErrors(simFlag, loadingFlag) == simFlag \/ loadingFlag

\* the values every new process starts from
ProcessReset ==
  /\ ctx' = "main"
  /\ cur' = combustion
  /\ ppi' = 1
  /\ ppList' = <<>>
  /\ ret' = TRUE
  /\ ErrorInSimFlag' = FALSE
  /\ diag' = NoDiag
  /\ ran' = <<>>
  /\ startStep' = none
  /\ nInv' = 0
  /\ zeroStart' = FALSE
  /\ pend' = {}

\* The batch scheduler kills the process: everything in memory is lost.
Kill ==
  /\ Running
  /\ pc' = "dead"
  /\ mem' = runInfoDefault
  /\ ProcessReset
  /\ ErrorLoadingFlag' = FALSE
  /\ effect' = "none"
  /\ UNCHANGED <<diskExists, diskEmpty, disk, fsVars, cfgFinal, errSet>>
  /\ UNCHANGED <<decided, sideVars>>

\* setSimError with the diagnostic written next to it
SetError(kind, p) ==
  /\ ErrorInSimFlag' = TRUE
  /\ errSet' = TRUE
  /\ diag' = <<kind, p>>

\* entry of performCombustionStep / performCoolantStep: checkForBoundaryFiles
EnterPhase(p, caller) ==
  /\ pc' = IF p = combustion THEN "comb_attempt" ELSE "cool_attempt"
  /\ ctx' = caller
  /\ nInv' = 0
  /\ zeroStart' = ((IF p = combustion THEN mem'.combIter ELSE mem'.coolIter) = 0)

(***************************************************************************)
(* Job start: __main__ calls checkCurrentState                             *)
(***************************************************************************)
\* RunInfoClass.__init__ has loaded settings.yaml and htcRunInfo.yaml, and
\* checkCurrentState, which found no error flag set, goes on to classify the
\* start
Launch(kind) ==
  /\ ~Running
  /\ ~(diskExists /\ diskEmpty)
  /\ ErrorLoadingFlag' \in BOOLEAN
  /\ ~checkErrors(FALSE, ErrorLoadingFlag')
  /\ classifyRestart(diskExists, loadRunInfo) = kind
  /\ pend' = {}
  /\ UNCHANGED <<diskExists, diskEmpty, disk, cfgFinal, errSet, decided>>

\* RunInfoClass.__init__ finds htcRunInfo.yaml and calls loadRunInfo:
\* yaml.load returns None for the empty file and the loop over it raises
\* before checkCurrentState is reached
loadRunInfo_raises ==
  /\ ~Running
  /\ diskExists /\ diskEmpty
  /\ pc' = "crashed"
  /\ mem' = runInfoDefault
  /\ ProcessReset
  /\ ErrorLoadingFlag' = FALSE
  /\ effect' = "none"
  /\ UNCHANGED <<diskExists, diskEmpty, disk, fsVars, cfgFinal, errSet>>
  /\ UNCHANGED <<decided, sideVars>>

\* RunInfoClass.__init__ flags an error: settings.yaml is missing, and then
\* nothing else is loaded, or a value of it cannot be made the type of its
\* default, the list of boundaries is empty, the mapping surface is missing
\* or no run command is known.  checkCurrentState returns False and __main__
\* does not enter mainLoop.
checkCurrentState_loadError ==
  /\ ~Running
  /\ \E settingsFound \in BOOLEAN :
       /\ settingsFound => ~(diskExists /\ diskEmpty)
       /\ mem' = IF settingsFound THEN loadRunInfo ELSE runInfoDefault
  /\ ErrorLoadingFlag' = TRUE
  /\ checkErrors(FALSE, ErrorLoadingFlag')
  /\ ProcessReset
  /\ pc' = "exited"
  /\ effect' = "none"
  /\ UNCHANGED <<diskExists, diskEmpty, disk, fsVars, cfgFinal, errSet>>
  /\ UNCHANGED <<decided, sideVars>>

\* initializeJob: a restart file found in a directory is made restart.rst
\* and the directory's ignore flag is set
checkCurrentState_new ==
  /\ Launch("NEW")
  /\ mem' = [loadRunInfo EXCEPT
               !.ignoreCombRestart = (getRecentRestartFile(rst[combustion]) # "none"),
               !.ignoreCoolRestart = (getRecentRestartFile(rst[coolant]) # "none")]
  /\ rst' = [p \in Phases |-> moveLatestToCanon(rst[p])]
  /\ ProcessReset
  /\ pc' = "mainLoop"
  /\ effect' = "inputs"
  /\ UNCHANGED <<done, cvgFile>>
  /\ UNCHANGED sideVars

\* restartCombustionDuringPostProcess / restartCoolantDuringPostProcess
checkCurrentState_postProcess ==
  /\ Launch("RESUME_POSTPROCESS")
  /\ mem' = loadRunInfo
  /\ ctx' = "main"
  /\ cur' = IF getPostProcessRunType(loadRunInfo) = coolant
            THEN coolant ELSE combustion
  /\ ppList' = getPostProcessStepsToComplete(loadRunInfo)
  /\ ppi' = 1
  /\ ret' = TRUE
  /\ ErrorInSimFlag' = FALSE
  /\ diag' = NoDiag
  /\ ran' = <<>>
  /\ startStep' = loadRunInfo.postProcessStep
  /\ nInv' = 0
  /\ zeroStart' = FALSE
  /\ pc' = "rpp_step"
  /\ effect' = "none"
  /\ UNCHANGED fsVars
  /\ UNCHANGED sideVars

\* a job that already completed is not run again
checkCurrentState_complete ==
  /\ Launch("ALREADY_DONE")
  /\ mem' = loadRunInfo
  /\ ProcessReset
  /\ pc' = "exited"
  /\ effect' = "none"
  /\ UNCHANGED fsVars
  /\ UNCHANGED sideVars

\* initializeRestart finds neither attempt counter set
checkCurrentState_notResumable ==
  /\ Launch("NOT_RESUMABLE")
  /\ mem' = loadRunInfo
  /\ ProcessReset
  /\ pc' = "exited"
  /\ effect' = "none"
  /\ UNCHANGED fsVars
  /\ UNCHANGED sideVars

\* initializeCoolantRestart
checkCurrentState_coolant ==
  /\ Launch("RESUME_COOLANT")
  /\ mem' = loadRunInfo
  /\ LET r == loadRunInfo
         combRestart == rst[combustion].canon
         expectedTime == r.combStopTime - PhaseDuration
     IN IF combRestart = NoRst \/ Abs(expectedTime - combRestart) > 1
        THEN /\ ProcessReset
             /\ pc' = "exited"
             /\ effect' = "none"
             /\ UNCHANGED fsVars
        ELSE /\ rst' = [rst EXCEPT ![coolant] = moveLatestToCanon(@)]
             /\ EnterPhase(coolant, "initCool")
             /\ cur' = coolant
             /\ ppi' = 1
             /\ ppList' = <<>>
             /\ ret' = TRUE
             /\ ErrorInSimFlag' = FALSE
             /\ diag' = NoDiag
             /\ ran' = <<>>
             /\ startStep' = none
             /\ effect' = "inputs"
             /\ UNCHANGED <<done, cvgFile>>
  /\ UNCHANGED sideVars

\* initializeCombustionRestart; correctTransferOutForRestart reports whether
\* the boundary-exchange log fragments left by the solver are consistent
checkCurrentState_combustion ==
  /\ Launch("RESUME_COMBUSTION")
  /\ mem' = loadRunInfo
  /\ ProcessReset
  /\ LET r == loadRunInfo
         latestRst == getRecentRestartFile(rst[combustion])
         combTimeDiff == r.combStopTime - timeOf(rst[combustion], latestRst)
     IN IF latestRst = "none" \/ combTimeDiff < 0
        THEN /\ pc' = "exited"
             /\ effect' = "none"
             /\ UNCHANGED fsVars
        ELSE /\ rst' = [rst EXCEPT ![combustion] = moveLatestToCanon(@)]
             /\ effect' = "inputs"
             /\ \E consistent \in BOOLEAN :
                  pc' = IF consistent THEN "mainLoop" ELSE "exited"
             /\ UNCHANGED <<done, cvgFile>>
  /\ UNCHANGED sideVars


(***************************************************************************)
(* The external solver.  One run may leave the sentinel converge.done and  *)
(* writes k numbered checkpoints, the last of them at time t; the          *)
(* directory keeps at most MaxNumbered numbered checkpoints.               *)
(***************************************************************************)
NewCheckpoints == {0, MaxNumbered}

SolverTimes(p) ==
  IF p = combustion
  THEN {mem.combStopTime, mem.combStopTime - PhaseDuration \div 2}
  ELSE {PhaseDuration \div 2}

runSim(p) ==
  \E ok \in BOOLEAN, k \in NewCheckpoints, t \in SolverTimes(p) :
    /\ k = 0 => t = CHOOSE x \in SolverTimes(p) : TRUE
    /\ done' = [done EXCEPT ![p] = @ \/ ok]
    /\ rst' = [rst EXCEPT ![p] =
                 IF k = 0 THEN @
                 ELSE [@ EXCEPT !.n = Min(MaxNumbered, @ + k), !.numT = t]]
    /\ nInv' = nInv + 1
    /\ effect' = "solver"

write_skip == UNCHANGED <<disk, diskExists, diskEmpty, decided, pend>>

\* RunInfoClass.write
write ==
  /\ disk' = mem'
  /\ diskExists' = TRUE
  /\ diskEmpty' = FALSE
  /\ decided' = (IF diskExists /\ ~diskEmpty /\ disk.iter = mem'.iter
                 THEN decided ELSE {})
                \cup {e[1] : e \in {x \in pend : x[2] = mem'.iter}}
  /\ pend' = {}

\* Positions whose handler calls write().
WritePositions == {"comb_attempt", "cool_attempt", "pp_set", "final_write"}

\* The process is killed inside write(): open(runInfoFile, 'w') has truncated
\* the file and the dump has not reached it.  disk keeps the last complete
\* snapshot, which nothing can read any more.
Kill_inWrite ==
  /\ pc \in WritePositions
  /\ pc' = "dead"
  /\ mem' = runInfoDefault
  /\ ProcessReset
  /\ ErrorLoadingFlag' = FALSE
  /\ effect' = "none"
  /\ diskExists' = TRUE
  /\ diskEmpty' = TRUE
  /\ UNCHANGED <<disk, fsVars, cfgFinal, errSet>>
  /\ decided' = {}
  /\ UNCHANGED sideVars

(***************************************************************************)
(* mainLoop                                                                *)
(***************************************************************************)
\* top of the loop: performCombustionStep is entered
mainLoop ==
  /\ pc = "mainLoop"
  /\ mem.iter <= MaxIter
  /\ mem' = mem
  /\ EnterPhase(combustion, "main")
  /\ effect' = "inputs"
  /\ UNCHANGED <<cur, ppi, ppList, ret, ErrorInSimFlag, diskExists, diskEmpty, disk,
                 fsVars, cfgFinal, diag, ran, startStep, errSet>>
  /\ UNCHANGED <<decided, pend, otherVars>>

\* after performCombustionStep returned
mainLoop_afterCombustion ==
  /\ pc = "afterComb"
  /\ LET e == ErrorInSimFlag \/ ~ret IN
     /\ ErrorInSimFlag' = e
     /\ errSet' = (errSet \/ e)
     /\ mem' = mem
     /\ IF checkJobComplete(mem) \/ checkErrors(e, ErrorLoadingFlag)
        THEN /\ pc' = "final_write"
             /\ effect' = "none"
             /\ UNCHANGED <<ctx, nInv, zeroStart>>
        ELSE /\ EnterPhase(coolant, "main")
             /\ effect' = "inputs"
  /\ UNCHANGED <<cur, ppi, ppList, ret, diskExists, diskEmpty, disk, fsVars, cfgFinal,
                 diag, ran, startStep>>
  /\ UNCHANGED <<decided, pend, otherVars>>

\* after performCoolantStep returned to the loop
mainLoop_afterCoolant ==
  /\ pc = "afterCool"
  /\ ctx = "main"
  /\ LET e == ErrorInSimFlag \/ ~ret IN
     /\ ErrorInSimFlag' = e
     /\ errSet' = (errSet \/ e)
     /\ pc' = IF checkJobComplete(mem) \/ checkErrors(e, ErrorLoadingFlag)
              THEN "final_write" ELSE "mainLoop"
  /\ effect' = "none"
  /\ UNCHANGED <<ctx, cur, ppi, ppList, ret, mem, diskExists, diskEmpty, disk, fsVars,
                 cfgFinal, diag, ran, startStep, nInv, zeroStart>>
  /\ UNCHANGED <<decided, pend, otherVars>>

\* the loop was left: the run information is written one last time
mainLoop_write ==
  /\ pc = "final_write"
  /\ mem' = mem
  /\ write
  /\ pc' = "exited"
  /\ effect' = "write"
  /\ UNCHANGED <<ctx, cur, ppi, ppList, ret, ErrorInSimFlag, fsVars, cfgFinal,
                 diag, ran, startStep, nInv, zeroStart, errSet>>
  /\ UNCHANGED otherVars

(***************************************************************************)
(* performCombustionStep: the attempt loop                                 *)
(***************************************************************************)
performCombustionStep_attempt ==
  /\ pc = "comb_attempt"
  /\ mem.combIter < AttemptCap
  /\ mem' = [mem EXCEPT !.combIter = @ + 1]
  /\ write
  /\ pc' = "comb_runSim"
  /\ effect' = "write"
  /\ UNCHANGED <<ctx, cur, ppi, ppList, ret, ErrorInSimFlag, fsVars, cfgFinal,
                 diag, ran, startStep, nInv, zeroStart, errSet>>
  /\ UNCHANGED otherVars

performCombustionStep_runSim ==
  /\ pc = "comb_runSim"
  /\ runSim(combustion)
  /\ pc' = "comb_check"
  /\ UNCHANGED <<ctx, cur, ppi, ppList, ret, mem, ErrorInSimFlag, diskExists, diskEmpty,
                 disk, cvgFile, cfgFinal, diag, ran, startStep, zeroStart,
                 errSet>>
  /\ UNCHANGED <<decided, pend, otherVars>>

\* lines 140-163: the ignore flag removes restart.rst of the coolant folder,
\* then the sentinel decides between success, retry and giving up
performCombustionStep_check ==
  /\ pc = "comb_check"
  /\ LET rst1 == IF mem.ignoreCombRestart
                 THEN [rst EXCEPT ![coolant].canon = NoRst] ELSE rst
         latestRst == getRecentRestartFile(rst1[combustion])
     IN
     /\ mem' = [mem EXCEPT !.ignoreCombRestart = FALSE]
     /\ IF done[combustion]
        THEN /\ pc' = "comb_complete"
             /\ rst' = rst1
             /\ effect' = "none"
             /\ UNCHANGED <<ret, ErrorInSimFlag, errSet, diag>>
        ELSE IF retriesExhausted(mem.combIter)
        THEN /\ SetError("retries", combustion)
             /\ ret' = FALSE
             /\ pc' = "afterComb"
             /\ rst' = rst1
             /\ effect' = "none"
        ELSE IF latestRst = "none"
        THEN /\ SetError("prep", combustion)
             /\ ret' = FALSE
             /\ pc' = "afterComb"
             /\ rst' = rst1
             /\ effect' = "none"
        ELSE /\ rst' = [rst1 EXCEPT ![combustion] = moveLatestToCanon(@)]
             /\ effect' = "inputs"
             /\ \E consistent \in BOOLEAN :
                  IF consistent
                  THEN /\ pc' = "comb_attempt"
                       /\ UNCHANGED <<ret, ErrorInSimFlag, errSet, diag>>
                  ELSE /\ SetError("prep", combustion)
                       /\ ret' = FALSE
                       /\ pc' = "afterComb"
  /\ UNCHANGED <<ctx, cur, ppi, ppList, diskExists, diskEmpty, disk, done, cvgFile,
                 cfgFinal, ran, startStep, nInv, zeroStart>>
  /\ UNCHANGED <<decided, pend, otherVars>>

\* lines 165-186: the sentinel was found, the checkpoint time is compared
\* with the stop time
performCombustionStep_complete ==
  /\ pc = "comb_complete"
  /\ LET rst1 == IF mem.ignoreCombRestart
                 THEN [rst EXCEPT ![combustion].canon = NoRst] ELSE rst
     IN
     /\ mem' = [mem EXCEPT !.ignoreCombRestart = FALSE]
     /\ rst' = rst1
     /\ IF checkCombustionCompleted(rst1[combustion], mem.combStopTime)
        THEN /\ pc' = "pp_set"
             /\ cur' = combustion
             /\ ppi' = 1
             /\ ran' = <<>>
             /\ UNCHANGED <<ret, ErrorInSimFlag, errSet, diag>>
        ELSE /\ SetError("oracle", combustion)
             /\ ret' = FALSE
             /\ pc' = "afterComb"
             /\ UNCHANGED <<cur, ppi, ran>>
  /\ effect' = "none"
  /\ UNCHANGED <<ctx, ppList, diskExists, diskEmpty, disk, done, cvgFile, cfgFinal,
                 startStep, nInv, zeroStart>>
  /\ UNCHANGED <<decided, pend, otherVars>>

(***************************************************************************)
(* performCoolantStep: the attempt loop                                    *)
(***************************************************************************)
performCoolantStep_attempt ==
  /\ pc = "cool_attempt"
  /\ mem.coolIter < AttemptCap
  /\ mem' = [mem EXCEPT !.coolIter = @ + 1]
  /\ write
  /\ pc' = "cool_runSim"
  /\ effect' = "write"
  /\ UNCHANGED <<ctx, cur, ppi, ppList, ret, ErrorInSimFlag, fsVars, cfgFinal,
                 diag, ran, startStep, nInv, zeroStart, errSet>>
  /\ UNCHANGED otherVars

performCoolantStep_runSim ==
  /\ pc = "cool_runSim"
  /\ runSim(coolant)
  /\ pc' = "cool_check"
  /\ UNCHANGED <<ctx, cur, ppi, ppList, ret, mem, ErrorInSimFlag, diskExists, diskEmpty,
                 disk, cvgFile, cfgFinal, diag, ran, startStep, zeroStart,
                 errSet>>
  /\ UNCHANGED <<decided, pend, otherVars>>

\* lines 131-157
performCoolantStep_check ==
  /\ pc = "cool_check"
  /\ LET rst1 == IF mem.ignoreCoolRestart
                 THEN [rst EXCEPT ![coolant].canon = NoRst] ELSE rst
         latestRst == getRecentRestartFile(rst1[coolant])
     IN
     /\ mem' = [mem EXCEPT !.ignoreCoolRestart = FALSE]
     /\ IF done[coolant]
        THEN /\ pc' = "pp_set"
             /\ cur' = coolant
             /\ ppi' = 1
             /\ ran' = <<>>
             /\ rst' = rst1
             /\ effect' = "none"
             /\ UNCHANGED <<ret, ErrorInSimFlag, errSet, diag>>
        ELSE IF retriesExhausted(mem.coolIter)
        THEN /\ SetError("retries", coolant)
             /\ ret' = FALSE
             /\ pc' = "afterCool"
             /\ rst' = rst1
             /\ effect' = "none"
             /\ UNCHANGED <<cur, ppi, ran>>
        ELSE IF latestRst = "none"
        THEN /\ SetError("prep", coolant)
             /\ ret' = FALSE
             /\ pc' = "afterCool"
             /\ rst' = rst1
             /\ effect' = "none"
             /\ UNCHANGED <<cur, ppi, ran>>
        ELSE /\ rst' = [rst1 EXCEPT ![coolant] = moveLatestToCanon(@)]
             /\ effect' = "inputs"
             /\ pc' = "cool_attempt"
             /\ UNCHANGED <<ret, ErrorInSimFlag, errSet, diag, cur, ppi, ran>>
  /\ UNCHANGED <<ctx, ppList, diskExists, diskEmpty, disk, done, cvgFile, cfgFinal,
                 startStep, nInv, zeroStart>>
  /\ UNCHANGED <<decided, pend, otherVars>>


(***************************************************************************)
(* Post-processing steps.  Each is the body both the normal path and the   *)
(* resumed pipeline call; it leaves the durable run information alone.     *)
(***************************************************************************)
\* combustionBCtoCoolantBC / coolantBCtoCombustionBC: get*TransferFile sets
\* the error flag when the solver left no usable boundary-exchange log
mapping(p) ==
  \E gotFile \in BOOLEAN :
    /\ IF gotFile
       THEN UNCHANGED <<ErrorInSimFlag, errSet, diag>>
       ELSE SetError("map", p)
    /\ UNCHANGED <<mem, fsVars>>

\* checkRunConvergence: False without a convergence log or at iteration 0,
\* otherwise the verdict on the mapped samples; the log exists afterwards
convergenceCheck(p) ==
  \E verdict \in BOOLEAN :
    LET cvg == IF firstIteration(cvgFile[p], mem.iter) THEN FALSE
               ELSE verdict IN
    /\ mem' = IF p = combustion THEN [mem EXCEPT !.combCvg = cvg]
              ELSE [mem EXCEPT !.coolCvg = cvg]
    /\ cvgFile' = [cvgFile EXCEPT ![p] = TRUE]
    /\ UNCHANGED <<ErrorInSimFlag, errSet, diag, done, rst>>

moveRestartFilesStep(p) ==
  /\ rst' = [rst EXCEPT ![p] = moveRestartFiles(@)]
  /\ UNCHANGED <<mem, ErrorInSimFlag, errSet, diag, done, cvgFile>>

clearStartDoneFiles(p) ==
  /\ done' = [done EXCEPT ![p] = FALSE]
  /\ UNCHANGED <<mem, ErrorInSimFlag, errSet, diag, rst, cvgFile>>

\* renameBoundaryFiles, changeEntriesInFile, moveResults: files that do not
\* steer the control flow
otherStep == UNCHANGED <<mem, ErrorInSimFlag, errSet, diag, fsVars>>

DoStep(p, s) ==
  /\ ran' = Append(ran, s)
  /\ effect' = "step"
  /\ CASE s = "mapping" -> mapping(p)
       [] s = "convergenceCheck" -> convergenceCheck(p)
       [] s = "moveRestartFiles" -> moveRestartFilesStep(p)
       [] s = "clearingFiles" -> clearStartDoneFiles(p)
       [] OTHER -> otherStep

(***************************************************************************)
(* The pipeline in the normal path                                         *)
(***************************************************************************)
\* setPostProcessStep(step, runType): the field is set and written
setPostProcessStep ==
  /\ pc = "pp_set"
  /\ mem' = [mem EXCEPT !.postProcessStep = ppName(ppSteps[ppi], cur)]
  /\ write
  /\ pc' = "pp_do"
  /\ effect' = "write"
  /\ UNCHANGED <<ctx, cur, ppi, ppList, ret, ErrorInSimFlag, fsVars, cfgFinal,
                 diag, ran, startStep, nInv, zeroStart, errSet>>
  /\ UNCHANGED otherVars

\* position reached after step i: map*DataAndCheckConvergence returns after a
\* failed mapping and the caller goes on with updateInputs
afterStep(i, err) == IF i = 1 /\ err THEN 4 ELSE i + 1

postProcessStep ==
  /\ pc = "pp_do"
  /\ DoStep(cur, ppSteps[ppi])
  /\ LET nxt == afterStep(ppi, ErrorInSimFlag') IN
     IF nxt > Len(ppSteps)
     THEN /\ pc' = "pp_next"
          /\ ppi' = ppi
     ELSE /\ pc' = "pp_set"
          /\ ppi' = nxt
  /\ UNCHANGED <<ctx, cur, ppList, ret, diskExists, diskEmpty, disk, cfgFinal, startStep,
                 nInv, zeroStart>>
  /\ pend' = IF ppSteps[ppi] = "convergenceCheck"
             THEN pend \cup {<<cur, mem.iter>>} ELSE pend
  /\ UNCHANGED <<decided, otherVars>>

\* nextCombustionCycle / nextCoolantCycle
Commit(p) ==
  mem' = IF p = combustion THEN nextCombustionCycle(mem)
         ELSE nextCoolantCycle(mem)

\* end of performCombustionStep / performCoolantStep
nextCycle ==
  /\ pc = "pp_next"
  /\ Commit(cur)
  /\ ret' = TRUE
  /\ pc' = IF cur = combustion THEN "afterComb" ELSE "afterCool"
  /\ effect' = "none"
  /\ UNCHANGED <<ctx, cur, ppi, ppList, ErrorInSimFlag, diskExists, diskEmpty, disk,
                 fsVars, cfgFinal, diag, ran, startStep, nInv, zeroStart,
                 errSet>>
  /\ UNCHANGED <<decided, pend, otherVars>>

(***************************************************************************)
(* The resumed pipeline: restartCombustionDuringPostProcess and            *)
(* restartCoolantDuringPostProcess walk through the steps and run those    *)
(* that getPostProcessStepsToComplete returned                             *)
(***************************************************************************)
\* the coolant pipeline clears the sentinel in its moveRestartFiles branch
\* and has no branch for clearingFiles
ResumedBody(p, s) ==
  IF p = coolant /\ s = "moveRestartFiles"
  THEN /\ ran' = ran \o <<"moveRestartFiles", "clearingFiles">>
       /\ effect' = "step"
       /\ rst' = [rst EXCEPT ![p] = moveRestartFiles(@)]
       /\ done' = [done EXCEPT ![p] = FALSE]
       /\ UNCHANGED <<mem, ErrorInSimFlag, errSet, diag, cvgFile>>
  ELSE IF p = coolant /\ s = "clearingFiles"
  THEN /\ effect' = "none"
       /\ UNCHANGED <<ran, mem, ErrorInSimFlag, errSet, diag, fsVars>>
  ELSE DoStep(p, s)

restartDuringPostProcess_step ==
  /\ pc = "rpp_step"
  /\ IF InSeq(ppSteps[ppi], ppList)
     THEN ResumedBody(cur, ppSteps[ppi])
     ELSE /\ effect' = "none"
          /\ UNCHANGED <<ran, mem, ErrorInSimFlag, errSet, diag, fsVars>>
  /\ IF ppi = 1 /\ ErrorInSimFlag'
     THEN \* combustion returns None, which __main__ does not take for False
          /\ pc' = IF cur = combustion THEN "mainLoop" ELSE "exited"
          /\ ret' = (cur = combustion)
          /\ ppi' = ppi
     ELSE /\ pc' = IF ppi = Len(ppSteps) THEN "rpp_next" ELSE "rpp_step"
          /\ ppi' = IF ppi = Len(ppSteps) THEN ppi ELSE ppi + 1
          /\ ret' = ret
  /\ UNCHANGED <<ctx, cur, ppList, diskExists, diskEmpty, disk, cfgFinal, startStep,
                 nInv, zeroStart>>
  /\ pend' = IF ppSteps[ppi] = "convergenceCheck" /\ InSeq(ppSteps[ppi], ppList)
             THEN pend \cup {<<cur, mem.iter>>} ELSE pend
  /\ UNCHANGED <<decided, otherVars>>

\* combustion.py 63 and 315: checkRunConvergence has returned and written to
\* the convergence log; setCombConvergence, which takes the flag only, is
\* called with 'comb' and the flag, and the TypeError ends the process
setCombConvergence_raises ==
  /\ \/ pc = "pp_do"
     \/ pc = "rpp_step" /\ InSeq(ppSteps[ppi], ppList)
  /\ cur = combustion
  /\ ppSteps[ppi] = "convergenceCheck"
  /\ cvgFile' = [cvgFile EXCEPT ![combustion] = TRUE]
  /\ pc' = "dead"
  /\ mem' = runInfoDefault
  /\ ProcessReset
  /\ ErrorLoadingFlag' = FALSE
  /\ effect' = "step"
  /\ UNCHANGED <<diskExists, diskEmpty, disk, done, rst, cfgFinal, errSet>>
  /\ UNCHANGED <<decided, sideVars>>

\* combustion.py 344-365
restartCombustionDuringPostProcess_next ==
  /\ pc = "rpp_next"
  /\ cur = combustion
  /\ IF ErrorInSimFlag
     THEN /\ pc' = "exited"
          /\ ret' = FALSE
          /\ effect' = "none"
          /\ UNCHANGED <<mem, ctx, nInv, zeroStart>>
     ELSE /\ Commit(combustion)
          /\ IF checkJobComplete(mem')
             THEN /\ pc' = "exited"
                  /\ ret' = FALSE
                  /\ effect' = "none"
                  /\ UNCHANGED <<ctx, nInv, zeroStart>>
             ELSE /\ EnterPhase(coolant, "resumeComb")
                  /\ ret' = ret
                  /\ effect' = "inputs"
  /\ UNCHANGED <<cur, ppi, ppList, ErrorInSimFlag, diskExists, diskEmpty, disk, fsVars,
                 cfgFinal, diag, ran, startStep, errSet>>
  /\ UNCHANGED <<decided, pend, otherVars>>

\* combustion.py 366-378: the coolant step of the resumed iteration returned
restartCombustionDuringPostProcess_afterCoolant ==
  /\ pc = "afterCool"
  /\ ctx = "resumeComb"
  /\ IF ~ret \/ ErrorInSimFlag \/ checkJobComplete(mem)
     THEN pc' = "exited" /\ ret' = FALSE
     ELSE pc' = "mainLoop" /\ ret' = TRUE
  /\ effect' = "none"
  /\ UNCHANGED <<ctx, cur, ppi, ppList, mem, ErrorInSimFlag, diskExists, diskEmpty, disk,
                 fsVars, cfgFinal, diag, ran, startStep, nInv, zeroStart,
                 errSet>>
  /\ UNCHANGED <<decided, pend, otherVars>>

\* coolant.py 324-334
restartCoolantDuringPostProcess_next ==
  /\ pc = "rpp_next"
  /\ cur = coolant
  /\ IF ErrorInSimFlag
     THEN /\ pc' = "exited"
          /\ ret' = FALSE
          /\ UNCHANGED <<mem>>
     ELSE /\ Commit(coolant)
          /\ pc' = "mainLoop"
          /\ ret' = TRUE
  /\ effect' = "none"
  /\ UNCHANGED <<ctx, cur, ppi, ppList, ErrorInSimFlag, diskExists, diskEmpty, disk,
                 fsVars, cfgFinal, diag, ran, startStep, nInv, zeroStart,
                 errSet>>
  /\ UNCHANGED <<decided, pend, otherVars>>

\* initializeCoolantRestart returns what performCoolantStep returned
initializeCoolantRestart_return ==
  /\ pc = "afterCool"
  /\ ctx = "initCool"
  /\ pc' = IF ret THEN "mainLoop" ELSE "exited"
  /\ effect' = "none"
  /\ UNCHANGED <<ctx, cur, ppi, ppList, ret, mem, ErrorInSimFlag, diskExists, diskEmpty,
                 disk, fsVars, cfgFinal, diag, ran, startStep, nInv,
                 zeroStart, errSet>>
  /\ UNCHANGED <<decided, pend, otherVars>>

Next ==
  \/ Kill_inWrite
  \/ loadRunInfo_raises
  \/ Kill
  \/ checkCurrentState_new
  \/ checkCurrentState_postProcess
  \/ checkCurrentState_complete
  \/ checkCurrentState_notResumable
  \/ checkCurrentState_coolant
  \/ checkCurrentState_combustion
  \/ mainLoop
  \/ mainLoop_afterCombustion
  \/ mainLoop_afterCoolant
  \/ mainLoop_write
  \/ performCombustionStep_attempt
  \/ performCombustionStep_runSim
  \/ performCombustionStep_check
  \/ performCombustionStep_complete
  \/ performCoolantStep_attempt
  \/ performCoolantStep_runSim
  \/ performCoolantStep_check
  \/ setPostProcessStep
  \/ postProcessStep
  \/ nextCycle
  \/ restartDuringPostProcess_step
  \/ setCombConvergence_raises
  \/ restartCombustionDuringPostProcess_next
  \/ restartCombustionDuringPostProcess_afterCoolant
  \/ restartCoolantDuringPostProcess_next
  \/ initializeCoolantRestart_return

Spec == Init /\ [][Next]_vars

(***************************************************************************)
(* TransferSpec: the reconciliation of the boundary-exchange log on every  *)
(* content of the combustion directory, after a combustion attempt that    *)
(* has failed                                                              *)
(***************************************************************************)
TransferInit ==
  /\ MainInit
  /\ rst = [p \in Phases |-> NoFiles]
  /\ cfgFinal = FALSE
  /\ xfer \in [0..MaxTransferNumber -> TransferFiles]
  /\ xpc = "failed"
  /\ FileIdle
  /\ EvalIdle
  /\ InputsIdle
  /\ LogIdle
  /\ DiffIdle

\* performCombustionStep, combustion.py 159-163: what
\* prepCombustionRestartAfterFailure returns is what
\* correctTransferOutForRestart returned; False cancels the job
performCombustionStep_prep ==
  /\ xpc = "failed"
  /\ LET r == correctTransferOutForRestart(xfer) IN
       /\ xfer' = r.dir
       /\ IF r.ret
          THEN /\ xpc' = "runSim"
               /\ UNCHANGED <<ErrorInSimFlag, errSet, diag>>
          ELSE /\ xpc' = "fatal"
               /\ SetError("prep", combustion)
  /\ UNCHANGED <<ctlVars, mem, diskExists, diskEmpty, disk, fsVars, cfgFinal,
                 effect, ran, startStep, nInv, zeroStart, decided, pend>>
  /\ UNCHANGED <<ErrorLoadingFlag, fileVars, evalVars, inputVars, diffVars, logVars>>

TransferNext == performCombustionStep_prep

TransferSpec == TransferInit /\ [][TransferNext]_vars

(***************************************************************************)
(* FileSpec: getRecentRestartFile and callMoveFile on every content of a   *)
(* directory; a move may be repeated                                       *)
(***************************************************************************)
FileInit ==
  /\ MainInit
  /\ rst = [p \in Phases |-> NoFiles]
  /\ cfgFinal = FALSE
  /\ TransferIdle
  /\ fdir \in [0..MaxRestartFiles -> RestartTimes \cup {NoRst}]
  /\ fres = [found |-> FALSE, file |-> 0]
  /\ fmv = [oldName |-> 0, newName |-> 0, raised |-> FALSE]
  /\ fhist \in {[k \in 1..MaxNumbered |-> NoRst],
                [k \in 1..MaxNumbered |-> StartCADDefault]}
  /\ fpc = "start"
  /\ EvalIdle
  /\ InputsIdle
  /\ LogIdle
  /\ DiffIdle

getRecentRestartFile_call ==
  /\ fpc = "start"
  /\ fres' = getRecentRestartFile_files(fdir)
  /\ fpc' = "located"
  /\ UNCHANGED <<mainVars, transferVars, evalVars, inputVars, diffVars, logVars, fdir, fmv, fhist>>

callMoveFile_call ==
  /\ fpc \in {"start", "located", "moved"}
  /\ \E oldName, newName \in DOMAIN fdir :
       LET r == callMoveFile(fdir, oldName, newName) IN
         /\ fdir' = r.dir
         /\ fmv' = [oldName |-> oldName, newName |-> newName,
                    raised |-> r.raised]
         /\ fpc' = IF r.raised THEN "raised" ELSE "moved"
  /\ UNCHANGED <<mainVars, transferVars, evalVars, inputVars, diffVars, logVars, fres, fhist>>

\* the step moveRestartFiles of the pipeline, first or replayed
moveRestartFiles_call ==
  /\ fpc \in {"start", "archived"}
  /\ LET f == moveRestartFiles_files([dir |-> fdir, hist |-> fhist]) IN
       /\ fdir' = f.dir
       /\ fhist' = f.hist
  /\ fpc' = IF fpc = "start" THEN "archived" ELSE "archivedAgain"
  /\ UNCHANGED <<mainVars, transferVars, evalVars, inputVars, diffVars, logVars, fres, fmv>>

FileNext ==
  \/ getRecentRestartFile_call
  \/ callMoveFile_call
  \/ moveRestartFiles_call

FileSpec == FileInit /\ [][FileNext]_vars

(***************************************************************************)
(* ConvergenceSpec: one call of checkRunConvergence on every phase,        *)
(* iteration and content of the run directory                              *)
(***************************************************************************)
ConvergenceInit ==
  /\ MainInit
  /\ rst = [p \in Phases |-> NoFiles]
  /\ cfgFinal = FALSE
  /\ TransferIdle
  /\ FileIdle
  /\ cin \in [runType : Phases, iter : 0..MaxIter, log : BOOLEAN,
              tol : {settingsDefault},
              boundarytempTol :
                {NoKey} \cup [has : {TRUE},
                              val : {boundaryTempTolDefault,
                                     boundaryTempTolDefault + 1}],
              bnd : [{boundaries[i] : i \in DOMAIN boundaries}
                       -> BoundarySamples]]
  /\ cres = "False"
  /\ cpc = "start"
  /\ InputsIdle
  /\ LogIdle
  /\ DiffIdle

\* the convergence log exists after the call
checkRunConvergence_call ==
  /\ cpc = "start"
  /\ cres' = checkRunConvergence(cin)
  /\ cin' = [cin EXCEPT !.log = TRUE]
  /\ cpc' = "evaluated"
  /\ UNCHANGED <<mainVars, transferVars, fileVars, inputVars, diffVars, logVars>>

ConvergenceNext == checkRunConvergence_call

ConvergenceSpec == ConvergenceInit /\ [][ConvergenceNext]_vars

(***************************************************************************)
(* StartSpec: the start of a process, with or without a load error, on     *)
(* every content of htcRunInfo.yaml that a write of the job leaves         *)
(***************************************************************************)
\* what write() dumps: the attempt counter of the phase that is running or
\* whose pipeline is running, the step field, the convergence flags once
\* iteration 0 is over, and the stop time of the iteration
PersistedRunInfo ==
  {[runInfoDefault EXCEPT
      !.iter = i,
      !.combStopTime = StartCADDefault + (i + 1) * PhaseDuration,
      !.combIter = n[1], !.coolIter = n[2],
      !.combCvg = cvg[1], !.coolCvg = cvg[2],
      !.postProcessStep = s,
      !.hasFinalCombustionStep = cfgFinal] :
     <<i, n, cvg, s>> \in
       {x \in (0..MaxIter) \X {<<0, 0>>, <<1, 0>>, <<0, 1>>}
                \X {<<FALSE, FALSE>>, <<TRUE, FALSE>>, <<TRUE, TRUE>>}
                \X ({none} \cup {ppName(ppSteps[k], q) :
                                   k \in DOMAIN ppSteps, q \in Phases}) :
          /\ x[1] = 0 => x[3] = <<FALSE, FALSE>>
          /\ x[4] # none => x[2] = (IF x[4][2] = combustion
                                    THEN <<1, 0>> ELSE <<0, 1>>)}}

StartInit ==
  /\ pc = "dead"
  /\ ctx = "main"
  /\ cur = combustion
  /\ ppi = 1
  /\ ppList = <<>>
  /\ ret = TRUE
  /\ mem = runInfoDefault
  /\ ErrorInSimFlag = FALSE
  /\ ErrorLoadingFlag = FALSE
  /\ cfgFinal \in BOOLEAN
  /\ diskExists \in BOOLEAN
  /\ diskEmpty \in BOOLEAN
  /\ diskEmpty => diskExists
  /\ disk \in PersistedRunInfo
  /\ ~diskExists \/ diskEmpty => disk = runInfoDefault
  /\ done = [p \in Phases |-> FALSE]
  /\ \E t \in {NoRst, disk.combStopTime - PhaseDuration, disk.combStopTime} :
       rst = [p \in Phases |->
                IF p = combustion THEN [NoFiles EXCEPT !.canon = t]
                ELSE NoFiles]
  /\ cvgFile = [p \in Phases |-> FALSE]
  /\ diag = NoDiag
  /\ effect = "none"
  /\ ran = <<>>
  /\ startStep = none
  /\ nInv = 0
  /\ zeroStart = FALSE
  /\ errSet = FALSE
  /\ decided = {}
  /\ pend = {}
  /\ TransferIdle
  /\ FileIdle
  /\ EvalIdle
  /\ InputsIdle
  /\ LogIdle
  /\ DiffIdle

StartNext ==
  \/ loadRunInfo_raises
  \/ checkCurrentState_loadError
  \/ checkCurrentState_new
  \/ checkCurrentState_postProcess
  \/ checkCurrentState_complete
  \/ checkCurrentState_notResumable
  \/ checkCurrentState_coolant
  \/ checkCurrentState_combustion

StartSpec == StartInit /\ [][StartNext]_vars

(***************************************************************************)
(* InputsSpec: inputs.in of a phase directory from the step updateInputs,  *)
(* which may be replayed, through the attempts of the next run of the      *)
(* phase, each prepared by the retry of the attempt loop or by the restart *)
(* of the job                                                              *)
(***************************************************************************)
InputsInit ==
  /\ MainInit
  /\ rst = [p \in Phases |-> NoFiles]
  /\ cfgFinal = FALSE
  /\ TransferIdle
  /\ FileIdle
  /\ EvalIdle
  /\ DiffIdle
  /\ LogIdle
  /\ inp \in [restart_number : 1..(MaxRestarts + 1), restart_flag : {0, 1},
              map_flag : {"OFF", "MAP"},
              end_time : {StartCADDefault + PhaseDuration,
                          StartCADDefault + 2 * PhaseDuration}]
  /\ irun \in [runType : Phases,
               combStopTime : {StartCADDefault + PhaseDuration,
                               StartCADDefault + 2 * PhaseDuration},
               n : {0}, rstFound : BOOLEAN]
  /\ iused = {}
  /\ ipc = "pipeline"

\* the step updateInputs of the pipeline, in performCombustionStep or
\* performCoolantStep
updateInputs ==
  /\ ipc \in {"pipeline", "updated"}
  /\ inp' = changeEntriesInFile(inp, updateInputs_newEntries(irun))
  /\ ipc' = "updated"
  /\ UNCHANGED <<irun, iused>>
  /\ UNCHANGED <<mainVars, transferVars, fileVars, evalVars, diffVars, logVars>>

\* the same step in restartCombustionDuringPostProcess or
\* restartCoolantDuringPostProcess
restartDuringPostProcess_updateInputs ==
  /\ ipc \in {"pipeline", "updated"}
  /\ inp' = changeEntriesInFile(inp, restartDuringPostProcess_newEntries(irun))
  /\ ipc' = "updated"
  /\ UNCHANGED <<irun, iused>>
  /\ UNCHANGED <<mainVars, transferVars, fileVars, evalVars, diffVars, logVars>>

\* an attempt of the next run of the phase: the counter is incremented, the
\* solver runs with inputs.in as it is and does not complete, or the process
\* is killed; the solver may have left a checkpoint file
attempt ==
  /\ ipc \in {"updated", "retry", "restart"}
  /\ irun.n <= MaxRestarts
  /\ \E found \in BOOLEAN :
       irun' = [irun EXCEPT !.n = @ + 1, !.rstFound = @ \/ found]
  /\ iused' = iused \cup (IF inp.restart_flag = 1 THEN {inp.restart_number}
                          ELSE {})
  /\ ipc' = "failed"
  /\ UNCHANGED inp
  /\ UNCHANGED <<mainVars, transferVars, fileVars, evalVars, diffVars, logVars>>

\* prepCombustionRestartAfterFailure / prepCoolantRestartAfterFailure, called
\* while the attempt counter does not exceed maxRestarts
prepRestartAfterFailure ==
  /\ ipc = "failed"
  /\ ~retriesExhausted(irun.n)
  /\ IF ~irun.rstFound
     THEN ipc' = "cancelled" /\ UNCHANGED inp
     ELSE /\ inp' = changeEntriesInFile(inp,
                      prepRestartAfterFailure_newEntries(irun))
          /\ ipc' = "retry"
  /\ UNCHANGED <<irun, iused>>
  /\ UNCHANGED <<mainVars, transferVars, fileVars, evalVars, diffVars, logVars>>

\* initializeCombustionRestart / initializeCoolantRestart after the process
\* was killed during the attempt
initializeRestart ==
  /\ ipc = "failed"
  /\ IF irun.runType = combustion /\ ~irun.rstFound
     THEN ipc' = "cancelled" /\ UNCHANGED inp
     ELSE /\ inp' = changeEntriesInFile(inp, initializeRestart_newEntries(irun))
          /\ ipc' = "restart"
  /\ UNCHANGED <<irun, iused>>
  /\ UNCHANGED <<mainVars, transferVars, fileVars, evalVars, diffVars, logVars>>

InputsNext ==
  \/ updateInputs
  \/ restartDuringPostProcess_updateInputs
  \/ attempt
  \/ prepRestartAfterFailure
  \/ initializeRestart

InputsSpec == InputsInit /\ [][InputsNext]_vars

(***************************************************************************)
(* DifferenceSpec: one evaluation on every pair of an archived and a       *)
(* current sample of at most MaxPoints rows                                *)
(***************************************************************************)
\* rows of the archived sample: any place, values 0
OldRows == [loc : {0, 1}, temp : {0}, flux : {0}, htc : {0}, fluid : {0}]

\* rows of the current sample: any place; equal to the archived values, or
\* one variable beyond its tolerance
NewRows ==
  [loc : {0, 1}, temp : {0}, flux : {0}, htc : {0}, fluid : {0}]
  \cup [loc : {0, 1}, temp : {0}, flux : {fluxTolDefault + 1}, htc : {0},
        fluid : {0}]
  \cup [loc : {0, 1}, temp : {boundaryTempTolDefault + 1}, flux : {0},
        htc : {0}, fluid : {fluidTempTolDefault + 1}]

DifferenceInit ==
  /\ MainInit
  /\ rst = [p \in Phases |-> NoFiles]
  /\ cfgFinal = FALSE
  /\ TransferIdle
  /\ FileIdle
  /\ EvalIdle
  /\ InputsIdle
  /\ LogIdle
  /\ \E n \in 2..MaxPoints :
       din \in [runType : Phases,
                boundarytempTol :
                  {NoKey, [has |-> TRUE, val |-> boundaryTempTolDefault]},
                old : [1..n -> OldRows], new : [1..n -> NewRows]]
  /\ dres = <<>>
  /\ dpc = "start"

getAverageDifference_call ==
  /\ dpc = "start"
  /\ dres' = [got |-> getAverageDifference(din.old, din.new),
              warned |-> getAverageDifference_warns(din.old, din.new),
              verdict |-> checkRunConvergence_samples(din)]
  /\ dpc' = "compared"
  /\ UNCHANGED din
  /\ UNCHANGED <<mainVars, transferVars, fileVars, evalVars, inputVars, logVars>>

DifferenceNext == getAverageDifference_call

DifferenceSpec == DifferenceInit /\ [][DifferenceNext]_vars

(***************************************************************************)
(* LogSpec: the convergence log of a phase through the evaluations of a    *)
(* job, replayed or not, from a directory without a log or with the log    *)
(* that an earlier job left                                                *)
(***************************************************************************)
\* logs of an earlier job: the header and up to two records
EarlierLogs ==
  {NoLog} \cup
  {[exists |-> TRUE, lines |-> <<<<"header", p>>>> \o recs] :
     p \in Phases,
     recs \in UNION {[1..n -> {<<"iteration", k>> : k \in 1..MaxIter}] :
                       n \in 0..2}}

LogInit ==
  /\ MainInit
  /\ rst = [p \in Phases |-> NoFiles]
  /\ cfgFinal = FALSE
  /\ TransferIdle
  /\ FileIdle
  /\ EvalIdle
  /\ InputsIdle
  /\ DiffIdle
  /\ lg \in EarlierLogs
  /\ lrun \in [runType : Phases, iter : {0}, evals : {0}]
  /\ lpc = "start"

\* the step convergenceCheck of the pipeline, first or replayed after a
\* restart of the job
checkRunConvergence_write ==
  /\ lpc \in {"start", "evaluated"}
  /\ lrun.evals <= MaxRestarts
  /\ lg' = checkRunConvergence_log(lg, lrun.runType, lrun.iter)
  /\ lpc' = "evaluated"
  /\ lrun' = [lrun EXCEPT !.evals = @ + 1]
  /\ UNCHANGED <<mainVars, transferVars, fileVars, evalVars, inputVars, diffVars>>

\* nextCoolantCycle: the evaluation was made or the pipeline was left at the
\* failed mapping
nextIteration ==
  /\ lrun.iter < MaxIter
  /\ lrun' = [lrun EXCEPT !.iter = @ + 1, !.evals = 0]
  /\ lpc' = "start"
  /\ UNCHANGED lg
  /\ UNCHANGED <<mainVars, transferVars, fileVars, evalVars, inputVars, diffVars>>

LogNext ==
  \/ checkRunConvergence_write
  \/ nextIteration

LogSpec == LogInit /\ [][LogNext]_vars

(***************************************************************************)
(* Properties                                                              *)
(***************************************************************************)
\* C1: when a pipeline resumed at the durable step (p, s) reaches its commit,
\* it has executed exactly the steps of the fixed order from s to the end,
\* each once and in that order, and none that precedes s
C1_ResumeRunsSuffix ==
  pc = "rpp_next" =>
    ran = SubSeq(ppSteps, indexOf(startStep[1]), Len(ppSteps))

\* C2: once the error flag is set in a running process, the process has no
\* further effect but writing the run information: no solver invocation, no
\* pipeline step, no update of inputs or move of files
C2_NoEffectAfterError ==
  [][ErrorInSimFlag /\ Running => effect' \in {"none", "write"}]_vars

\* C3 as stated: an attempt loop entered with attempt counter 0 whose
\* attempts all end without the sentinel gives up only after exactly
\* MaxRestarts + 1 solver invocations
C3_FatalOnlyAfterAllAttempts ==
  zeroStart /\ diag[1] \in {"retries", "prep"} => nInv = MaxRestarts + 1

\* C3 amended: an attempt loop entered with attempt counter 0 never invokes
\* the solver more than MaxRestarts + 1 times, and when it gives up because
\* the retries are exhausted it has invoked it exactly MaxRestarts + 1 times
C3_RetryBound ==
  zeroStart =>
    /\ nInv <= MaxRestarts + 1
    /\ (diag[1] = "retries" => nInv = MaxRestarts + 1)

\* the coolant attempt loop, entered with counter 0, gave up on exhausted
\* retries
C3_Witness ==
  /\ zeroStart
  /\ diag = <<"retries", coolant>>
  /\ nInv = MaxRestarts + 1
  /\ pc = "afterCool"

\* C4: whenever a pipeline step s of phase p is about to execute, in the
\* normal path and in a resumed pipeline, the step field of htcRunInfo.yaml
\* equals (p, s)
C4_StepFieldPersisted ==
  /\ pc = "pp_do" =>
       diskExists /\ disk.postProcessStep = ppName(ppSteps[ppi], cur)
  /\ pc = "rpp_step" /\ InSeq(ppSteps[ppi], ppList)
       /\ ~(cur = coolant /\ ppSteps[ppi] = "clearingFiles") =>
       diskExists /\ disk.postProcessStep = ppName(ppSteps[ppi], cur)

\* C5: no reachable content of htcRunInfo.yaml is rejected at job start as
\* not resumable
C5_AlwaysClassified ==
  classifyRestart(diskExists, disk) # "NOT_RESUMABLE"

\* C6 as stated: the normal cycle is never left between the combustion and
\* the coolant phase of an iteration: without an error the main loop is not
\* left after a combustion phase of the normal cycle, and the commit of a
\* combustion phase does not start the final cycle
C6_NoLeaveAfterCombustion ==
  [][/\ (pc = "afterComb" /\ pc' = "final_write"
           /\ ~mem.finalCombustionCompleted => ErrorInSimFlag')
     /\ (pc \in {"pp_next", "rpp_next"} /\ cur = combustion
           /\ ~mem.finalCombustionRunning => ~mem'.finalCombustionRunning)]_vars

\* C6 amended: the aggregate convergence is evaluated at the commit of either
\* phase, and the normal cycle is left without an error, to the end of the
\* job or to the final cycle, only when both convergence flags are set
C6_LeaveOnlyConverged ==
  [][/\ (pc \in {"afterComb", "afterCool", "rpp_next"}
           /\ pc' \in {"final_write", "exited"}
           /\ ~ErrorInSimFlag' /\ ~mem.hasFinalCombustionStep
           => mem.combCvg /\ mem.coolCvg)
     /\ (Running /\ ~mem.finalCombustionRunning /\ mem'.finalCombustionRunning
           => mem.combCvg /\ mem.coolCvg /\ pc \in {"pp_next", "rpp_next"})]_vars

\* the main loop was left after a combustion phase that found both flags set
C6_Witness ==
  /\ pc = "final_write"
  /\ cur = combustion
  /\ ~ErrorInSimFlag
  /\ ~mem.hasFinalCombustionStep
  /\ mem.combCvg /\ mem.coolCvg

\* C7: while both convergence flags are set and no final cycle is configured
\* no solver is invoked, whichever way the converged coolant phase was reached
C7_NoSolverAfterConverged ==
  mem.combCvg /\ mem.coolCvg /\ ~mem.hasFinalCombustionStep =>
    pc \notin {"comb_runSim", "cool_runSim"}

\* C8 as stated: the final pass is a combustion phase followed by a coolant
\* phase, so the final cycle is completed by the commit of a coolant phase
C8_FinalPassEndsWithCoolant ==
  [][Running /\ ~mem.finalCombustionCompleted /\ mem'.finalCombustionCompleted
       => cur = coolant]_vars

\* C8 amended: the final cycle is one combustion phase: the commit of a
\* combustion phase run in the final cycle completes the job whatever the
\* convergence flags are, and no solver is invoked once it is completed
C8_FinalCombustionThenDone ==
  [][/\ (pc \in {"pp_next", "rpp_next"} /\ cur = combustion
           /\ mem.finalCombustionRunning /\ ~ErrorInSimFlag /\ pc' # "dead"
           => checkJobComplete(mem') /\ pc' \in {"afterComb", "exited"})
     /\ (mem'.finalCombustionCompleted
           => pc' \notin {"comb_attempt", "comb_runSim",
                          "cool_attempt", "cool_runSim"})]_vars

\* the main loop was left because the final combustion phase committed
C8_Witness ==
  /\ pc = "final_write"
  /\ cur = combustion
  /\ mem.finalCombustionCompleted
  /\ ~mem.finalCombustionRunning
  /\ ~ErrorInSimFlag

\* C9: once the error flag was set in a process of the job, every process
\* started later finds it set and neither invokes the solver nor executes a
\* pipeline step
C9_ErrorFlagPersisted ==
  errSet =>
    /\ Running => ErrorInSimFlag
    /\ ~ErrorInSimFlag => effect \notin {"solver", "step"}

\* C10: after the mapping step of phase p failed no later pipeline step of p
\* has been executed, and the step field of htcRunInfo.yaml names the
\* mapping step of p when the process has ended
C10_HaltsAtMap ==
  diag[1] = "map" /\ cur = diag[2] =>
    /\ ran # <<>> => ran[Len(ran)] = "mapping"
    /\ pc = "exited" =>
         diskExists /\ disk.postProcessStep = ppName("mapping", diag[2])

\* C11: replaying a pipeline step changes nothing: the checkpoint files left by
\* the moveRestartFiles step of a resumed pipeline are left as they are when
\* the step is executed once more, so that a second resumption from the same
\* durable step moves, overwrites or deletes no checkpoint
C11_ReplayMovesNoCheckpoint ==
  [][pc = "rpp_step" /\ pc' # "dead" /\ ppSteps[ppi] = "moveRestartFiles"
       /\ InSeq("moveRestartFiles", ppList)
       => moveRestartFiles(rst'[cur]) = rst'[cur]]_vars

\* C13: in htcRunInfo.yaml the combustion and the coolant attempt counter are
\* never both greater than zero
C13_OneCounterNonzero ==
  diskExists => ~(disk.combIter > 0 /\ disk.coolIter > 0)

\* a coolant attempt was persisted after a combustion phase that needed a retry
C13_Witness ==
  /\ diskExists
  /\ disk.coolIter > 0
  /\ disk.combIter = 0
  /\ pc = "cool_runSim"
  /\ disk.iter >= 1

\* C14: the reset of the step field is persisted: whenever a process that has
\* met no error, running or ended, holds the step "none", so does
\* htcRunInfo.yaml
C14_ResetPersisted ==
  (Running \/ pc = "exited") /\ ~ErrorInSimFlag /\ diskExists
    /\ mem.postProcessStep = none =>
    disk.postProcessStep = none

\* C15: whenever the solver of phase p is about to be invoked, the attempt
\* counter of p is at least 1 and htcRunInfo.yaml holds the same value
C15_CounterPersistedBeforeSolver ==
  /\ pc = "comb_runSim" =>
       /\ diskExists /\ ~diskEmpty
       /\ mem.combIter >= 1 /\ disk.combIter = mem.combIter
  /\ pc = "cool_runSim" =>
       /\ diskExists /\ ~diskEmpty
       /\ mem.coolIter >= 1 /\ disk.coolIter = mem.coolIter

\* the combustion solver is about to be invoked for an in-process retry
C15_Witness ==
  /\ pc = "comb_runSim"
  /\ nInv = 1
  /\ mem.combIter = 2
  /\ disk.combIter = 2

\* C16: when the process has ended with the error flag set after exhausted
\* retries, an oracle mismatch or a failed mapping, the attempt counter of the
\* failing phase is greater than zero in memory and in htcRunInfo.yaml
C16_CounterKeptAtFatal ==
  pc = "exited" /\ ErrorInSimFlag /\ diag[1] \in {"retries", "oracle", "map"} =>
    IF diag[2] = combustion
    THEN mem.combIter > 0 /\ (diskExists => disk.combIter > 0)
    ELSE mem.coolIter > 0 /\ (diskExists => disk.coolIter > 0)

C18_IterationAndStopTime ==
  [][/\ (diskExists /\ diskExists' =>
           disk'.iter >= disk.iter /\ disk'.combStopTime >= disk.combStopTime)
     /\ (Running /\ Running' =>
           /\ mem'.iter \in {mem.iter, mem.iter + 1}
           /\ mem'.combStopTime \in
                {mem.combStopTime, mem.combStopTime + PhaseDuration}
           /\ (mem'.combStopTime - StartCADDefault) % PhaseDuration = 0
           /\ (mem.iter = 0 /\ mem'.iter = 1 =>
                 mem'.combStopTime = StartCADDefault + 2 * PhaseDuration))
     /\ (pc \in {"pp_next", "rpp_next"} /\ pc' # "dead" /\ ~ErrorInSimFlag
           /\ ~(mem.combCvg /\ mem.coolCvg) =>
           IF cur = coolant
           THEN /\ mem'.iter = mem.iter + 1
                /\ mem'.combStopTime = mem.combStopTime
           ELSE /\ mem'.iter = mem.iter
                /\ mem.finalCombustionRunning
                     \/ mem'.combStopTime = mem.combStopTime + PhaseDuration)
    ]_vars

\* the first iteration of a fresh job has completed without convergence
C18_Witness ==
  /\ pc = "afterCool"
  /\ ~ErrorInSimFlag
  /\ mem.iter = 1
  /\ mem.combStopTime = StartCADDefault + 2 * PhaseDuration
  /\ ~(mem.combCvg /\ mem.coolCvg)

\* C19: write() is atomic with respect to kills: htcRunInfo.yaml is absent or
\* holds a complete snapshot, it is never empty
C19_FileNeverEmpty ==
  diskExists => ~diskEmpty

\* C12: checkRunConvergence is not about to be called for a phase whose
\* convergence flag of the current iteration is already in htcRunInfo.yaml
C12_NoSecondEvaluation ==
  (\/ pc = "pp_do" /\ ppSteps[ppi] = "convergenceCheck"
   \/ pc = "rpp_step" /\ ppSteps[ppi] = "convergenceCheck"
        /\ InSeq("convergenceCheck", ppList))
  => ~(diskExists /\ ~diskEmpty /\ disk.iter = mem.iter /\ cur \in decided)

\* C20 (TransferSpec): when the reconciliation finds three or more fragments
\* it changes none of them, the error flag is set and the solver is not
\* invoked
C20_ThreeFragmentsFatal ==
  [][xpc = "failed" /\ Cardinality({i \in DOMAIN xfer : xfer[i].there}) >= 3
       => /\ xfer' = xfer
          /\ xpc' = "fatal"
          /\ ErrorInSimFlag']_vars

\* three fragments were found, one of them with records to be trimmed
C20_Witness ==
  /\ xpc = "fatal"
  /\ ErrorInSimFlag
  /\ xfer[0].there /\ xfer[1].there /\ xfer[2].there
  /\ xfer[2].later > 0

\* C21 (TransferSpec): when the reconciliation finds transfer.out and exactly
\* one numbered fragment, transfer.out afterwards holds its own records
\* followed by the records of the numbered fragment up to the restart time,
\* the numbered fragment is gone and the solver is invoked next
C21_TwoFragmentsMerged ==
  [][\A k \in 1..MaxTransferNumber :
       xpc = "failed" /\ {i \in DOMAIN xfer : xfer[i].there} = {0, k}
       => /\ xfer' = [xfer EXCEPT
                        ![0] = [@ EXCEPT !.keep = @ + xfer[k].keep],
                        ![k] = Absent]
          /\ xpc' = "runSim"]_vars

\* transfer.out holds more records up to the restart time than one fragment
\* can: a numbered fragment was appended and removed
C21_Witness ==
  /\ xpc = "runSim"
  /\ {i \in DOMAIN xfer : xfer[i].there} = {0}
  /\ xfer[0].keep > MaxRecords

\* C22: after getRecentRestartFile, with no checkpoint file in the directory
\* the result is None, otherwise it is a file whose embedded time is the
\* maximum over all checkpoint files of the directory
C22_LatestByEmbeddedTime ==
  fpc = "located" =>
    LET S == {i \in DOMAIN fdir : fdir[i] # NoRst} IN
      IF S = {} THEN ~fres.found
      ELSE /\ fres.found
           /\ fres.file \in S
           /\ \A i \in S : fdir[i] <= fdir[fres.file]

\* C28: callMoveFile does nothing when source and destination are the same
\* name, and when the source does not exist the destination stays as it is
C28_MoveIdempotent ==
  [][fpc' \in {"moved", "raised"}
      => /\ fmv'.oldName = fmv'.newName => fdir' = fdir
         /\ fdir[fmv'.oldName] = NoRst => fdir' = fdir]_vars

\* C23: a call of checkRunConvergence after iteration 0, the convergence log
\* being there, in which every boundary has an archived sample and every
\* difference is zero, returns True
C23_IdenticalSamplesConverged ==
  [][/\ cpc = "start" /\ cpc' = "evaluated"
     /\ cin.iter > 0 /\ cin.log
     /\ \A i \in DOMAIN boundaries :
          LET s == cin.bnd[boundaries[i]] IN
            s.arch /\ s.temp = 0 /\ s.flux = 0 /\ s.htc = 0 /\ s.fluid = 0
     => cres' = "True"]_vars

\* C25: a call of checkRunConvergence in which some boundary has no archived
\* sample returns False
C25_MissingArchiveNotConverged ==
  cpc = "evaluated" /\ (\E i \in DOMAIN boundaries :
                          ~cin.bnd[boundaries[i]].arch)
    => cres = "False"

\* C30: in a call of checkRunConvergence that evaluates the boundaries, all
\* of them with an archived sample, the result is True exactly when every
\* boundary has the differences of the variables of the phase within the
\* configured tolerances: boundaryTemp and flux for combustion, flux, htc
\* and fluidTemp for coolant
C30_VerdictByRelevantVariables ==
  [][/\ cpc = "start" /\ cpc' = "evaluated"
     /\ cin.iter > 0 /\ cin.log
     /\ \A i \in DOMAIN boundaries : cin.bnd[boundaries[i]].arch
     => LET within(s) ==
              IF cin.runType = combustion
              THEN s.temp <= cin.tol.boundaryTempTol /\ s.flux <= cin.tol.fluxTol
              ELSE /\ s.flux <= cin.tol.fluxTol
                   /\ s.htc <= cin.tol.htcTol
                   /\ s.fluid <= cin.tol.fluidTempTol
        IN /\ cres' \in {"True", "False"}
           /\ cres' = "True" <=>
                \A i \in DOMAIN boundaries : within(cin.bnd[boundaries[i]])]_vars

\* C24: while the job is at iteration 0, in the running process and in
\* htcRunInfo.yaml alike, no convergence flag is set, the job is not complete
\* and the final combustion cycle is neither running nor completed
C24_NoConvergenceAtIterationZero ==
  /\ mem.iter = 0 =>
       /\ ~mem.combCvg /\ ~mem.coolCvg
       /\ ~checkJobComplete(mem)
       /\ ~mem.finalCombustionRunning /\ ~mem.finalCombustionCompleted
  /\ diskExists /\ disk.iter = 0 =>
       /\ ~disk.combCvg /\ ~disk.coolCvg
       /\ ~checkJobComplete(disk)
       /\ ~disk.finalCombustionRunning /\ ~disk.finalCombustionCompleted

\* the coolant pipeline of iteration 0 has evaluated convergence, the
\* convergence log of the combustion phase being there
C24_Witness ==
  /\ mem.iter = 0
  /\ cur = coolant
  /\ InSeq("convergenceCheck", ran)
  /\ cvgFile[combustion] /\ cvgFile[coolant]
  /\ pc = "pp_set"

\* C26: a process whose start flagged a load error has stopped without
\* invoking a solver, executing a pipeline step or writing htcRunInfo.yaml,
\* and the start that flags it changes no file
C26_LoadErrorAborts ==
  [][ErrorLoadingFlag' =>
       /\ pc' = "exited"
       /\ effect' = "none" /\ ran' = <<>> /\ nInv' = 0
       /\ <<diskExists, diskEmpty, disk, fsVars>>' =
            <<diskExists, diskEmpty, disk, fsVars>>]_vars

\* the restart of a job whose combustion pipeline was interrupted is
\* cancelled by a load error
C26_Witness ==
  /\ ErrorLoadingFlag
  /\ pc = "exited"
  /\ diskExists /\ ~diskEmpty
  /\ restartAtPostProcess(disk)
  /\ mem = disk

\* C27: after the step updateInputs, in performCombustionStep or
\* performCoolantStep and in the resumed pipeline alike, first or replayed,
\* inputs.in of combustion holds restart_number 1, restart_flag 1, map_flag
\* OFF and end_time combStopTime + 720, and inputs.in of coolant holds
\* restart_number 1, restart_flag 0, map_flag MAP and the end_time it had
C27_UpdateInputsFields ==
  [][(ipc' = "updated" /\ ipc \in {"pipeline", "updated"}) =>
       inp' = (IF irun.runType = combustion
               THEN [restart_number |-> 1, restart_flag |-> 1,
                     map_flag |-> "OFF",
                     end_time |-> irun.combStopTime + PhaseDuration]
               ELSE [restart_number |-> 1, restart_flag |-> 0,
                     map_flag |-> "MAP", end_time |-> inp.end_time])
    ]_vars

\* updateInputs of combustion has replaced every field of inputs.in
C27_Witness ==
  /\ ipc = "updated"
  /\ irun.runType = combustion
  /\ irun.combStopTime = StartCADDefault + PhaseDuration
  /\ inp = [restart_number |-> 1, restart_flag |-> 1, map_flag |-> "OFF",
            end_time |-> StartCADDefault + 2 * PhaseDuration]

\* C29: the preparation of the attempt that follows attempt n leaves in
\* inputs.in the restart_number, restart_flag and map_flag that the retry of
\* the attempt loop would write and that the restart of the job would write,
\* and no attempt made with restart_flag 1 runs with a restart number that an
\* earlier attempt of the run has used
C29_ResumeFieldsByAttempt ==
  [][(ipc = "failed" /\ ipc' \in {"retry", "restart"} =>
        /\ resumeFields(inp') = resumeFields(changeEntriesInFile(inp,
                                  prepRestartAfterFailure_newEntries(irun)))
        /\ resumeFields(inp') = resumeFields(changeEntriesInFile(inp,
                                  initializeRestart_newEntries(irun))))
     /\ (ipc \in {"updated", "retry", "restart"} /\ ipc' = "failed"
           /\ inp.restart_flag = 1 => inp.restart_number \notin iused)]_vars

\* C31: when rows of the archived and of the current sample of a boundary
\* differ in their coordinates, whatever their number, the differences are
\* taken over exactly the other rows, the warning is written, and the
\* evaluation ends with a verdict and without an exception or the error flag
C31_MismatchedPointsDropped ==
  [][(dpc = "start" /\ dpc' = "compared"
        /\ getAverageDifference_warns(din.old, din.new)) =>
       /\ dres'.warned
       /\ ~dres'.got.raised
       /\ dres'.verdict \in {"True", "False"}
       /\ ~ErrorInSimFlag'
       /\ dres'.got.maxDiff =
            maxDiffOver(din.old, din.new,
                        {i \in 1..Len(din.old) :
                           din.old[i].loc = din.new[i].loc})
    ]_vars

\* C32 as stated: every evaluation, at every iteration and on every replay,
\* adds one record of the current iteration to the convergence log and
\* leaves every line written earlier as it was
C32_LogAppendOnly ==
  [][(lpc' = "evaluated" /\ lrun'.evals = lrun.evals + 1) =>
       lg'.lines = Append(lg.lines, <<"iteration", lrun.iter>>)]_vars

\* C32 amended: an evaluation after iteration 0 that finds the log adds one
\* record of the current iteration and leaves every earlier line as it was;
\* an evaluation at iteration 0 or without a log leaves a log that holds the
\* header only
C32_LogAppendOnlyAfterFirst ==
  [][(lpc' = "evaluated" /\ lrun'.evals = lrun.evals + 1) =>
       IF lrun.iter > 0 /\ lg.exists
       THEN lg'.lines = Append(lg.lines, <<"iteration", lrun.iter>>)
       ELSE lg'.lines = <<<<"header", lrun.runType>>>>]_vars

\* the log of a job at iteration 2: the header, the record of iteration 1
\* and two records of iteration 2, the second one from a replay
C32_Witness ==
  /\ lpc = "evaluated"
  /\ lrun.iter = 2
  /\ lrun.evals = 2
  /\ lg.lines = <<<<"header", lrun.runType>>, <<"iteration", 1>>,
                  <<"iteration", 2>>, <<"iteration", 2>>>>

\* C33: a step convergenceCheck of phase p that is executed, in the pipeline
\* or in the resumed pipeline, ends with the convergence flag of p holding
\* what checkRunConvergence returned, False at iteration 0 or without a log,
\* and with every other field of the run information as it was
C33_FlagHoldsVerdict ==
  [][(/\ \/ pc = "pp_do"
         \/ pc = "rpp_step" /\ InSeq(ppSteps[ppi], ppList)
      /\ ppSteps[ppi] = "convergenceCheck"
      /\ effect' = "step") =>
       /\ pc' # "dead"
       /\ \E v \in BOOLEAN :
            /\ firstIteration(cvgFile[cur], mem.iter) => ~v
            /\ mem' = IF cur = combustion THEN [mem EXCEPT !.combCvg = v]
                      ELSE [mem EXCEPT !.coolCvg = v]
    ]_vars

\* C34 (TransferSpec): when the reconciliation of at most two fragments, none,
\* transfer.out alone, a numbered one alone or transfer.out with a numbered
\* one, succeeds, no numbered fragment is left and transfer.out, if there is
\* one, holds no record after the restart time
C34_OneTrimmedFragment ==
  [][(/\ xpc = "failed"
      /\ xpc' = "runSim"
      /\ \E k \in 1..MaxTransferNumber :
           {i \in DOMAIN xfer : xfer[i].there} \in {{}, {0}, {k}, {0, k}}) =>
       /\ {i \in DOMAIN xfer' : xfer'[i].there} \subseteq {0}
       /\ xfer'[0].later = 0]_vars

\* C35: whenever the solver of a phase is about to be invoked, converge.done
\* is not in the directory of the phase
C35_NoStaleSentinel ==
  /\ pc = "comb_runSim" => ~done[combustion]
  /\ pc = "cool_runSim" => ~done[coolant]

\* C36 (FileSpec): after the step moveRestartFiles on a directory that holds
\* restart.rst and zero to three numbered checkpoint files, restart.rst is
\* still there with the greatest time of the files found, and so it is after
\* the step was executed a second time; the folder restartFiles holds at
\* most three files
C36_CanonicalKept ==
  [][(/\ fpc \in {"start", "archived"}
      /\ fpc' \in {"archived", "archivedAgain"}
      /\ fpc' # fpc
      /\ fpc = "start" => fdir[0] # NoRst) =>
       /\ fdir'[0] # NoRst
       /\ \A i \in DOMAIN fdir : fdir[i] <= fdir'[0]
       /\ Cardinality({k \in DOMAIN fhist' : fhist'[k] # NoRst}) <= MaxNumbered
    ]_vars

\* C37 (Spec): when a process stops because the job is complete, from the
\* loop, after the final cycle or while resuming a pipeline, htcRunInfo.yaml
\* as written last makes checkCurrentState find a completed job; and a start
\* on such a file invokes no solver, executes no pipeline step and changes
\* no file
C37_DoneAbsorbing ==
  [][/\ (/\ Running
         /\ pc' = "exited"
         /\ checkJobComplete(mem')
         /\ ~ErrorInSimFlag' /\ ~ErrorLoadingFlag') =>
          /\ diskExists' /\ ~diskEmpty'
          /\ classifyRestart(diskExists', disk') = "ALREADY_DONE"
     /\ (/\ ~Running
         /\ diskExists /\ ~diskEmpty
         /\ classifyRestart(diskExists, disk) = "ALREADY_DONE") =>
          /\ pc' \in {"dead", "exited", "crashed"}
          /\ nInv' = 0 /\ ran' = <<>>
          /\ <<diskExists, diskEmpty, disk, fsVars>>' =
               <<diskExists, diskEmpty, disk, fsVars>>
    ]_vars

\* C38 (Spec): wherever the process can be killed within an iteration, in a
\* solver attempt, between two pipeline steps or between the end of a
\* pipeline and the next write, a restart resumes from htcRunInfo.yaml with
\* the iteration counter, the combustion stop time and both convergence
\* flags that the killed process held, up to what the resumed path computes
\* again: the flag of the phase when its convergence check is replayed, for
\* the same verdict, and the cycle update when the pipeline had ended
C38_RestartKeepsResult ==
  LET result(r) == <<r.iter, r.combStopTime, r.combCvg, r.coolCvg>>
      found == diskExists /\ ~diskEmpty
      d == loadRunInfo
      kind == classifyRestart(found, d)
      p == getPostProcessRunType(d)
      replayed == InSeq("convergenceCheck", getPostProcessStepsToComplete(d))
      evaluated(v) == IF ~replayed THEN d
                      ELSE IF p = coolant THEN [d EXCEPT !.coolCvg = v]
                      ELSE [d EXCEPT !.combCvg = v]
      committed(v) == IF p = coolant THEN nextCoolantCycle(evaluated(v))
                      ELSE nextCombustionCycle(evaluated(v))
  IN
  (Running /\ ~ErrorInSimFlag /\ ~(diskExists /\ diskEmpty)) =>
    /\ pc = "comb_runSim" =>
         kind = "RESUME_COMBUSTION" /\ result(d) = result(mem)
    /\ pc = "cool_runSim" =>
         kind = "RESUME_COOLANT" /\ result(d) = result(mem)
    /\ (pc = "pp_do" \/ (pc = "pp_set" /\ ppi > 1) \/ pc = "pp_next"
        \/ pc = "rpp_step" \/ pc = "rpp_next") =>
         /\ kind = "RESUME_POSTPROCESS"
         /\ p = cur
         /\ \E v \in BOOLEAN : result(evaluated(v)) = result(mem)
    /\ pc \in {"afterComb", "afterCool", "mainLoop", "comb_attempt",
               "cool_attempt"} =>
         IF kind = "RESUME_POSTPROCESS"
         THEN \E v \in BOOLEAN : result(committed(v)) = result(mem)
         ELSE result(d) = result(mem)

\* C39 (Spec): whenever the combustion solver is invoked with
\* finalCombustionRunning set, both convergence flags are set; and
\* initializeFinalCombustionRun, which installs the final input files, is
\* not executed again by nextCombustionCycle or nextCoolantCycle once
\* finalCombustionRunning is set
C39_FinalCycleOnce ==
  [][/\ (pc' = "comb_runSim" /\ mem'.finalCombustionRunning) =>
          (mem'.combCvg /\ mem'.coolCvg)
     /\ (/\ pc \in {"pp_next", "rpp_next"}
         /\ pc' \notin {"dead", "pp_next", "rpp_next"}
         /\ mem.finalCombustionRunning
         /\ mem.hasFinalCombustionStep) =>
          (cur = combustion \/ ~checkConvergence(mem))
    ]_vars

\* C40 (Spec): no step of the combustion attempt loop changes a checkpoint
\* file of the coolant directory; with ignoreCombRestart set, the statement
\* after the first solver invocation clears the flag and, the sentinel being
\* there, leaves the combustion directory without restart.rst
C40_CoolantCheckpointUntouched ==
  [][(/\ pc \in {"comb_attempt", "comb_runSim", "comb_check", "comb_complete"}
      /\ pc' # "dead") =>
       /\ rst'[coolant] = rst[coolant]
       /\ (pc = "comb_check" /\ mem.ignoreCombRestart) =>
            /\ ~mem'.ignoreCombRestart
            /\ pc' = "comb_complete" => rst'[combustion].canon = NoRst
    ]_vars

====
